---- MODULE Spec2Model ----
(***************************************************************************)
(* i3nator: a model of Project::start (src/src/projects.rs) and of the     *)
(* xdotool input driver it calls (exec_commands, exec_text, exec_keys).    *)
(*                                                                         *)
(* start is single-threaded; every `?` of the source that depends on the   *)
(* environment (reading the file, creating the transient file, the i3 IPC  *)
(* socket, spawning a process, the tool meeting its timeout) is a          *)
(* nondeterministic outcome of the step that contains it.  Waiting on,     *)
(* killing and reaping a child the caller has just spawned and not yet     *)
(* reaped cannot fail on the supported platforms and is modelled as        *)
(* always succeeding.                                                      *)
(*                                                                         *)
(* Further specifications over the same variables, each with its own      *)
(* initial states and next-state relation:                                 *)
(*   SpecVerify  the verify/retry loop verify_project (src/src/main.rs)    *)
(*   SpecLayout  deserialize_layout and tilde (src/src/types.rs) and the   *)
(*               resolution of the layout at start                         *)
(*   SpecCache   Project::config and its cache on one handle               *)
(*   SpecDisk    create, copy, delete and rename on the projects           *)
(*               directory (src/src/projects.rs, src/src/configfile.rs)    *)
(*   SpecParse   the deserializers of the fields of a document             *)
(*               (src/src/types.rs) and the word splitter they use         *)
(*               (src/src/shlex.rs)                                        *)
(***************************************************************************)
EXTENDS Integers, Sequences, FiniteSets, TLC

\* ------------------------------------------------------------------ bounds
MaxApps == 3          \* applications in a configuration
MaxCmds == 2          \* commands in one exec section
MaxExecApps == 2      \* applications in a configuration that varies the exec sections

\* --------------------------------------------------------------- constants
DefaultTimeout == 5   \* types.rs default_timeout
FirstPid == 100       \* pid the OS hands to the first spawned process

\* ------------------------------------------------------------ Option<T>
\* Option<T> is a sequence of length <= 1.
None == <<>>
Some(x) == <<x>>
IsSome(o) == Len(o) = 1
IsNone(o) == Len(o) = 0
Unwrap(o) == o[1]
\* Option::or_else
OrElse(o, p) == IF IsSome(o) THEN o ELSE p

\* ------------------------------------------------------- configuration
\* A layout string is a sequence of characters; two representatives: an
\* inline document and a file path.
LayoutStrings == { <<"{", "}">>, <<"/", "x">> }

\* str::find('{').is_some()
HasBrace(s) == \E k \in DOMAIN s : s[k] = "{"

ExecTypes == {"Text", "TextNoReturn", "Keys"}

\* The command strings of an exec section: c1..cn.  The map form of exec
\* accepts an empty list.
CommandLists == { [k \in 1..n |-> "c" \o ToString(k)] : n \in 0..MaxCmds }

Execs == [commands : CommandLists, exec_type : ExecTypes, timeout : {DefaultTimeout}]

\* deserialize_exec, visit_str: `exec = "c1"`
StringExec == [commands |-> <<"c1">>, exec_type |-> "Text", timeout |-> DefaultTimeout]

ApplicationCommands == { [program |-> "prog", args |-> <<"--flag">>] }

\* applications that differ in what start resolves for them
Applications ==
    [command : ApplicationCommands,
     working_directory : {None, Some("B")},
     exec : {None, Some(StringExec)}]

\* applications that differ in what the input driver does for them
ExecApplications ==
    [command : ApplicationCommands,
     working_directory : {None},
     exec : {None} \cup { Some(e) : e \in Execs }]

Generals ==
    [working_directory : {None, Some("C")},
     workspace : {None, Some("1")},
     layout : LayoutStrings]

\* the configuration of the end-to-end scenario: a path layout, no workspace
PlainGeneral == [working_directory |-> None, workspace |-> None, layout |-> <<"/", "x">>]

RECURSIVE SeqsUpTo(_, _)
SeqsUpTo(S, n) ==
    IF n = 0 THEN { <<>> }
    ELSE LET shorter == SeqsUpTo(S, n - 1)
         IN  shorter \cup { Append(s, x) : s \in { t \in shorter : Len(t) = n - 1 }, x \in S }

Configs == [general : Generals, applications : SeqsUpTo(Applications, MaxApps)]

ExecConfigs == [general : {PlainGeneral}, applications : SeqsUpTo(ExecApplications, MaxExecApps)]

\* What is on disk at the project's path.
Files == { [kind |-> "missing"], [kind |-> "invalid"] }
         \cup { [kind |-> "valid", cfg |-> c] : c \in Configs }

ExecFiles == { [kind |-> "valid", cfg |-> c] : c \in ExecConfigs }

\* --------------------------------------------------------------- state
VARIABLES
    file,          \* the configuration file on disk
    config,        \* Project.config : Option<Config>, the handle's cache
    working_directory, \* start's parameter: Option, the CLI override
    workspace,     \* start's parameter: Option, the CLI override
    pc,            \* position of the running operation (start, verify_project)
    result,        \* what the operation returned: "none" while running
    path,          \* the resolved layout path: Option<[src, utf8]>
    tempfile,      \* the transient layout file: "none", "exists", "removed"
    i,             \* index of the application being started
    j,             \* index of the exec command being input
    part,          \* "text" or "return": which half of a Text command
    child,         \* pid of the application spawned last (0: none)
    tool,          \* the current xdotool child: [pid, status, code]
    nextPid,       \* the next pid the OS hands out
    trace,         \* everything the operation did to the outside world, in order
    ch,            \* verify_project's `ch`: Option<char>
    env,           \* the process environment: VISUAL and EDITOR
    existing,      \* the paths that exist in the file system
    layouts,       \* the names of the managed layouts that exist
    home,          \* the home directory: Option<path>
    disk,          \* the projects directory: name -> Option<content of <name>.toml>
    call,          \* the operation on the directory that ran last, or is running
    toml,          \* the value of a field of the document that is being parsed
    output         \* what deserializing that value gave

\* what only verify_project and the editor read or write
verifyVars == <<ch, env, existing>>

\* what only the parsing and the resolving of a layout read
layoutVars == <<layouts, home>>

\* what only the operations on the projects directory read or write
diskVars == <<disk, call>>

\* what only the deserializers of the fields read or write
parseVars == <<toml, output>>

\* the state that start and the input driver never touch
ext == <<verifyVars, layoutVars, diskVars, parseVars>>

vars == <<file, config, working_directory, workspace, pc, result, path,
          tempfile, i, j, part, child, tool, nextPid, trace, ext>>

NoTool == [pid |-> 0, status |-> "none", code |-> 0]

\* ------------------------------------------------------------- events
IpcEv(cmd, ok) == [ev |-> "ipc", cmd |-> cmd, ok |-> ok]
TempCreateEv(contents) == [ev |-> "tempfile_create", contents |-> contents]
TempRemoveEv == [ev |-> "tempfile_remove"]
SpawnEv(app, command, cwd, pid, ok) ==
    [ev |-> "spawn", app |-> app, program |-> command.program, args |-> command.args,
     cwd |-> cwd, pid |-> pid, ok |-> ok]
ToolEv(argv, pid, ok) == [ev |-> "tool", argv |-> argv, pid |-> pid, ok |-> ok]
WaitTimeoutEv(pid, timeout, exited) ==
    [ev |-> "wait_timeout", pid |-> pid, timeout |-> timeout, exited |-> exited]
KillEv(pid) == [ev |-> "kill", pid |-> pid]
WaitEv(pid) == [ev |-> "wait", pid |-> pid]

\* ------------------------------------------------------------ helpers
\* a load that falls back to a default configuration when the file does not parse
LenientLoad ==
    CASE file.kind = "missing" -> [ok |-> FALSE, err |-> "Io"]
      [] OTHER -> [ok |-> TRUE,
                   val |-> [general |-> [working_directory |-> None, workspace |-> None,
                                         layout |-> <<"{", "}">>],
                            applications |-> <<>>]]

\* Project::load: open and read the file, then parse it.
load ==
    CASE file.kind = "missing" -> [ok |-> FALSE, err |-> "Io"]
      [] file.kind = "invalid" -> [ok |-> FALSE, err |-> "Toml"]
      [] OTHER                 -> [ok |-> TRUE, val |-> file.cfg]

\* the configuration's workspace taken before the override
ConfigBeforeOverride(override, general) == OrElse(general.workspace, override)

\* start's `workspace.map(Into::into).or_else(|| general.workspace...)`
EffectiveWorkspace(override, general) == OrElse(override, general.workspace)

\* general.working_directory taken before the application's own
GeneralBeforeApplication(override, application, general) ==
    OrElse(OrElse(override, general.working_directory), application.working_directory)

\* start's working-directory precedence for one application
EffectiveWorkingDirectory(override, application, general) ==
    OrElse(OrElse(override, application.working_directory), general.working_directory)

\* the path rendered lossily instead of being refused
ToStringLossy(p) == Some(p.name)

\* Path::to_str
to_str(p) == IF p.utf8 THEN Some(p.name) ELSE None

\* exec_commands' base_parameters
base_parameters(pid) ==
    <<"search", "--sync", "--onlyvisible", "--any", "--pid", ToString(pid),
      "ignorepattern", "windowfocus", "--sync", "%1">>

\* the argument vector exec_text hands to xdotool
exec_text(base, text) == base \o <<"type", "--window", "%1", text>>

\* the argument vector exec_keys hands to xdotool
exec_keys(base, keys) == base \o <<"key", "--window", "%1">> \o keys

\* exec_commands: is there a k-th round of the loop over the commands
\* (Keys makes one call whatever the number of commands)
HasRound(exec, k) ==
    IF exec.exec_type = "Keys" THEN k = 1 ELSE k <= Len(exec.commands)

\* Text with the Return sent before the text
ReturnFirst(exec, k, p, pid) ==
    CASE exec.exec_type = "Keys" -> exec_keys(base_parameters(pid), exec.commands)
      [] exec.exec_type = "TextNoReturn" -> exec_text(base_parameters(pid), exec.commands[k])
      [] OTHER -> IF p = "text"
                  THEN exec_keys(base_parameters(pid), <<"Return">>)
                  ELSE exec_text(base_parameters(pid), exec.commands[k])

\* exec_commands: the invocation made in round k, part p
Invocation(exec, k, p, pid) ==
    CASE exec.exec_type = "Keys" -> exec_keys(base_parameters(pid), exec.commands)
      [] exec.exec_type = "TextNoReturn" -> exec_text(base_parameters(pid), exec.commands[k])
      [] OTHER -> IF p = "text"
                  THEN exec_text(base_parameters(pid), exec.commands[k])
                  ELSE exec_keys(base_parameters(pid), <<"Return">>)

\* exec_commands: Text follows each text with a Return
HasReturnPart(exec) == exec.exec_type = "Text"

Cfg == Unwrap(config)
CurApp == Cfg.applications[i]
CurExec == Unwrap(CurApp.exec)

\* start returns res after doing evs; the NamedTempFile it owns is dropped,
\* which removes the file.
Return(res, evs) ==
    /\ pc' = "done"
    /\ result' = res
    /\ tempfile' = IF tempfile = "exists" THEN "removed" ELSE tempfile
    /\ trace' = trace \o evs \o (IF tempfile = "exists" THEN <<TempRemoveEv>> ELSE <<>>)

\* ---------------------------------------------------------------- Init
\* no verify loop is running: nothing was read, no editor is configured
VerifyIdle ==
    /\ ch = None
    /\ env = [VISUAL |-> None, EDITOR |-> None]
    /\ existing = {}

\* no managed layout exists and no home directory is known
LayoutIdle ==
    /\ layouts = {}
    /\ home = None

\* the project names of the model; the last one is an OsStr that is not
\* UTF-8 (the single byte 0xff)
NonUtf8Name == "<ff>"
Names == {"a", "a-b", NonUtf8Name}

\* no operation has run on the directory
NoCall == [op |-> "none", self |-> "-", new |-> "-", before |-> <<>>,
           res |-> "none", handle |-> None]

\* no field is being deserialized
NoInput == [field |-> "none"]
NoOutput == [ok |-> FALSE, err |-> "none"]
ParseIdle ==
    /\ toml = NoInput
    /\ output = NoOutput

\* the projects directory is empty and left alone
DiskIdle ==
    /\ disk = [n \in Names |-> None]
    /\ call = NoCall

\* a fresh handle (Project::open: config is None) on which start is called
Fresh ==
    /\ config = None
    /\ pc = "config"
    /\ result = "none"
    /\ path = None
    /\ tempfile = "none"
    /\ i = 0
    /\ j = 0
    /\ part = "text"
    /\ child = 0
    /\ tool = NoTool
    /\ nextPid = FirstPid
    /\ trace = <<>>
    /\ VerifyIdle
    /\ LayoutIdle
    /\ DiskIdle
    /\ ParseIdle

\* start on any file, with any overrides
Init ==
    /\ file \in Files
    /\ working_directory \in {None, Some("A")}
    /\ workspace \in {None, Some("9")}
    /\ Fresh

\* start without overrides on a configuration with any exec sections
InitExec ==
    /\ file \in ExecFiles
    /\ working_directory = None
    /\ workspace = None
    /\ Fresh

\* ------------------------------------------------------------- actions
\* `let config = self.config()?;`
StartConfig ==
    /\ pc = "config"
    /\ IF IsSome(config)
       THEN /\ pc' = "layout"
            /\ UNCHANGED <<config, result, tempfile, trace>>
       ELSE IF load.ok
            THEN /\ config' = Some(load.val)
                 /\ pc' = "layout"
                 /\ UNCHANGED <<result, tempfile, trace>>
            ELSE /\ Return(load.err, <<>>)
                 /\ UNCHANGED config
    /\ UNCHANGED <<ext, file, working_directory, workspace, path, i, j, part, child, tool, nextPid>>

\* a transient file that lives only as long as the block that writes it
LayoutFileDroppedEarly ==
    /\ pc = "layout"
    /\ LET layout == Cfg.general.layout IN
       IF HasBrace(layout)
       THEN \/ /\ Return("Io", <<>>)
               /\ UNCHANGED path
            \/ \E utf8 \in BOOLEAN :
                 /\ tempfile' = "removed"
                 /\ path' = Some([name |-> <<"/", "t">>, utf8 |-> utf8])
                 /\ trace' = trace \o <<TempCreateEv(layout), TempRemoveEv>>
                 /\ pc' = "workspace"
                 /\ UNCHANGED result
       ELSE /\ path' = Some([name |-> layout, utf8 |-> TRUE])
            /\ pc' = "workspace"
            /\ UNCHANGED <<result, tempfile, trace>>
    /\ UNCHANGED <<ext, file, config, working_directory, workspace, i, j, part, child, tool, nextPid>>

\* `let path: &Path = if general.layout.find('{').is_some() { ... } else { ... };`
StartLayout ==
    /\ pc = "layout"
    /\ LET layout == Cfg.general.layout IN
       IF HasBrace(layout)
       THEN \/ \* NamedTempFile::new() fails
               /\ Return("Io", <<>>)
               /\ UNCHANGED path
            \/ \* write_all or flush fails: the file is dropped on return
               /\ pc' = "done"
               /\ result' = "Io"
               /\ tempfile' = "removed"
               /\ trace' = trace \o <<TempCreateEv(<<>>), TempRemoveEv>>
               /\ UNCHANGED path
            \/ \* the temporary directory decides whether the path is UTF-8
               \E utf8 \in BOOLEAN :
                 /\ tempfile' = "exists"
                 /\ path' = Some([name |-> <<"/", "t">>, utf8 |-> utf8])
                 /\ trace' = Append(trace, TempCreateEv(layout))
                 /\ pc' = "workspace"
                 /\ UNCHANGED result
       ELSE /\ path' = Some([name |-> layout, utf8 |-> TRUE])
            /\ pc' = "workspace"
            /\ UNCHANGED <<result, tempfile, trace>>
    /\ UNCHANGED <<ext, file, config, working_directory, workspace, i, j, part, child, tool, nextPid>>

\* the workspace command with its result dropped instead of propagated
WorkspaceUnchecked ==
    /\ pc = "workspace"
    /\ LET ws == EffectiveWorkspace(workspace, Cfg.general) IN
       IF IsSome(ws)
       THEN \E ok \in BOOLEAN :
              /\ trace' = Append(trace, IpcEv(<<"workspace", Unwrap(ws)>>, ok))
              /\ pc' = "append"
              /\ UNCHANGED <<result, tempfile>>
       ELSE /\ pc' = "append"
            /\ UNCHANGED <<result, tempfile, trace>>
    /\ UNCHANGED <<ext, file, config, working_directory, workspace, path, i, j, part, child, tool, nextPid>>

\* `if let Some(ref workspace) = workspace { i3.command(...)?; }`
StartWorkspace ==
    /\ pc = "workspace"
    /\ LET ws == EffectiveWorkspace(workspace, Cfg.general) IN
       IF IsSome(ws)
       THEN \E ok \in BOOLEAN :
              LET e == IpcEv(<<"workspace", Unwrap(ws)>>, ok) IN
              IF ok
              THEN /\ trace' = Append(trace, e)
                   /\ pc' = "append"
                   /\ UNCHANGED <<result, tempfile>>
              ELSE Return("Ipc", <<e>>)
       ELSE /\ pc' = "append"
            /\ UNCHANGED <<result, tempfile, trace>>
    /\ UNCHANGED <<ext, file, config, working_directory, workspace, path, i, j, part, child, tool, nextPid>>

\* `i3.command(&format!("append_layout {}", path.to_str().ok_or_else(..)?))?;`
StartAppendLayout ==
    /\ pc = "append"
    /\ LET s == to_str(Unwrap(path)) IN
       IF IsNone(s)
       THEN /\ Return("InvalidUtF8Path", <<>>)
            /\ UNCHANGED i
       ELSE \E ok \in BOOLEAN :
              LET e == IpcEv(<<"append_layout", Unwrap(s)>>, ok) IN
              IF ok
              THEN /\ trace' = Append(trace, e)
                   /\ pc' = "apps"
                   /\ i' = 1
                   /\ UNCHANGED <<result, tempfile>>
              ELSE /\ Return("Ipc", <<e>>)
                   /\ UNCHANGED i
    /\ UNCHANGED <<ext, file, config, working_directory, workspace, path, j, part, child, tool, nextPid>>

\* a loop that goes on to the next application when a spawn fails
SpawnContinuing ==
    /\ pc = "apps"
    /\ i <= Len(Cfg.applications)
    /\ LET cwd == EffectiveWorkingDirectory(working_directory, CurApp, Cfg.general) IN
       \E ok \in BOOLEAN :
         /\ trace' = Append(trace, SpawnEv(i, CurApp.command, cwd, IF ok THEN nextPid ELSE 0, ok))
         /\ IF ok
            THEN /\ child' = nextPid
                 /\ nextPid' = nextPid + 1
            ELSE UNCHANGED <<child, nextPid>>
         /\ IF ok /\ IsSome(CurApp.exec)
            THEN /\ pc' = "exec"
                 /\ j' = 1
                 /\ part' = "text"
                 /\ UNCHANGED i
            ELSE /\ pc' = "apps"
                 /\ i' = i + 1
                 /\ UNCHANGED <<j, part>>
         /\ UNCHANGED <<result, tempfile>>
    /\ UNCHANGED <<ext, file, config, working_directory, workspace, path, tool>>

\* one round of `for application in applications`: build and spawn the command
StartSpawn ==
    /\ pc = "apps"
    /\ i <= Len(Cfg.applications)
    /\ LET cwd == EffectiveWorkingDirectory(working_directory, CurApp, Cfg.general) IN
       \E ok \in BOOLEAN :
         LET e == SpawnEv(i, CurApp.command, cwd, IF ok THEN nextPid ELSE 0, ok) IN
         IF ok
         THEN /\ trace' = Append(trace, e)
              /\ child' = nextPid
              /\ nextPid' = nextPid + 1
              /\ IF IsSome(CurApp.exec)
                 THEN /\ pc' = "exec"
                      /\ j' = 1
                      /\ part' = "text"
                      /\ UNCHANGED i
                 ELSE /\ pc' = "apps"
                      /\ i' = i + 1
                      /\ UNCHANGED <<j, part>>
              /\ UNCHANGED <<result, tempfile>>
         ELSE /\ Return("Io", <<e>>)
              /\ UNCHANGED <<i, j, part, child, nextPid>>
    /\ UNCHANGED <<ext, file, config, working_directory, workspace, path, tool>>

\* a loop that stops one application short
ReturnEarly ==
    /\ pc = "apps"
    /\ i >= Len(Cfg.applications)
    /\ Return("Ok", <<>>)
    /\ UNCHANGED <<ext, file, config, working_directory, workspace, path, i, j, part, child, tool, nextPid>>

\* the loop is exhausted: `Ok(())`
StartReturn ==
    /\ pc = "apps"
    /\ i > Len(Cfg.applications)
    /\ Return("Ok", <<>>)
    /\ UNCHANGED <<ext, file, config, working_directory, workspace, path, i, j, part, child, tool, nextPid>>

\* a driver that goes on with the next invocation when the tool cannot be
\* spawned
ToolSpawnSkipping ==
    /\ pc = "exec"
    /\ HasRound(CurExec, j)
    /\ \E ok \in BOOLEAN :
         LET e == ToolEv(Invocation(CurExec, j, part, child), IF ok THEN nextPid ELSE 0, ok) IN
         /\ trace' = Append(trace, e)
         /\ UNCHANGED <<result, tempfile>>
         /\ IF ok
            THEN /\ tool' = [pid |-> nextPid, status |-> "running", code |-> 0]
                 /\ nextPid' = nextPid + 1
                 /\ pc' = "tool_wait"
                 /\ UNCHANGED <<j, part>>
            ELSE /\ UNCHANGED <<tool, nextPid, pc>>
                 /\ IF HasReturnPart(CurExec) /\ part = "text"
                    THEN /\ part' = "return"
                         /\ UNCHANGED j
                    ELSE /\ part' = "text"
                         /\ j' = j + 1
    /\ UNCHANGED <<ext, file, config, working_directory, workspace, path, i, child>>

\* exec_text / exec_keys: `Command::new("xdotool").args(args)...spawn()?`
ToolSpawn ==
    /\ pc = "exec"
    /\ HasRound(CurExec, j)
    /\ \E ok \in BOOLEAN :
         LET e == ToolEv(Invocation(CurExec, j, part, child), IF ok THEN nextPid ELSE 0, ok) IN
         IF ok
         THEN /\ trace' = Append(trace, e)
              /\ tool' = [pid |-> nextPid, status |-> "running", code |-> 0]
              /\ nextPid' = nextPid + 1
              /\ pc' = "tool_wait"
              /\ UNCHANGED <<result, tempfile>>
         ELSE /\ Return("Io", <<e>>)
              /\ UNCHANGED <<tool, nextPid>>
    /\ UNCHANGED <<ext, file, config, working_directory, workspace, path, i, j, part, child>>

\* a timeout that leaves the tool running and carries on
WaitTimeoutDetaching ==
    /\ pc = "tool_wait"
    /\ \E exited \in BOOLEAN :
         /\ tool' = [tool EXCEPT !.status = IF exited THEN "exited" ELSE "running"]
         /\ trace' = Append(trace, WaitTimeoutEv(tool.pid, CurExec.timeout, exited))
         /\ pc' = "exec"
         /\ IF HasReturnPart(CurExec) /\ part = "text"
            THEN /\ part' = "return"
                 /\ UNCHANGED j
            ELSE /\ part' = "text"
                 /\ j' = j + 1
    /\ UNCHANGED <<ext, file, config, working_directory, workspace, result, path, tempfile,
                   i, child, nextPid>>

\* exec_text / exec_keys: `child.wait_timeout(timeout)?`; Some(status) is Ok(())
\* whatever the status, and exec_commands goes on to its next invocation
ToolWaitTimeout ==
    /\ pc = "tool_wait"
    /\ \/ \E code \in {0, 1} :
            /\ tool' = [tool EXCEPT !.status = "exited", !.code = code]
            /\ trace' = Append(trace, WaitTimeoutEv(tool.pid, CurExec.timeout, TRUE))
            /\ pc' = "exec"
            /\ IF HasReturnPart(CurExec) /\ part = "text"
               THEN /\ part' = "return"
                    /\ UNCHANGED j
               ELSE /\ part' = "text"
                    /\ j' = j + 1
       \/ /\ trace' = Append(trace, WaitTimeoutEv(tool.pid, CurExec.timeout, FALSE))
          /\ pc' = "tool_kill"
          /\ UNCHANGED <<tool, j, part>>
    /\ UNCHANGED <<ext, file, config, working_directory, workspace, result, path, tempfile,
                   i, child, nextPid>>

\* a kill that is not followed by a wait
KillWithoutWait ==
    /\ pc = "tool_kill"
    /\ tool' = [tool EXCEPT !.status = "killed"]
    /\ Return("TextOrKeyInputFailed", <<KillEv(tool.pid)>>)
    /\ UNCHANGED <<ext, file, config, working_directory, workspace, path,
                   i, j, part, child, nextPid>>

\* exec_text / exec_keys: `child.kill()?`
ToolKill ==
    /\ pc = "tool_kill"
    /\ tool' = [tool EXCEPT !.status = "killed"]
    /\ trace' = Append(trace, KillEv(tool.pid))
    /\ pc' = "tool_reap"
    /\ UNCHANGED <<ext, file, config, working_directory, workspace, result, path, tempfile,
                   i, j, part, child, nextPid>>

\* an input failure that is swallowed: start goes on to the next application
ReapContinuing ==
    /\ pc = "tool_reap"
    /\ tool' = [tool EXCEPT !.status = "reaped"]
    /\ trace' = Append(trace, WaitEv(tool.pid))
    /\ pc' = "apps"
    /\ i' = i + 1
    /\ UNCHANGED <<ext, file, config, working_directory, workspace, result, path, tempfile,
                   j, part, child, nextPid>>

\* exec_text / exec_keys: `child.wait()?; Err(TextOrKeyInputFailed)`, which
\* exec_commands and start propagate with `?`
ToolReap ==
    /\ pc = "tool_reap"
    /\ tool' = [tool EXCEPT !.status = "reaped"]
    /\ Return("TextOrKeyInputFailed", <<WaitEv(tool.pid)>>)
    /\ UNCHANGED <<ext, file, config, working_directory, workspace, path,
                   i, j, part, child, nextPid>>

\* exec_commands returns Ok(()): on to the next application
ExecReturn ==
    /\ pc = "exec"
    /\ ~HasRound(CurExec, j)
    /\ pc' = "apps"
    /\ i' = i + 1
    /\ UNCHANGED <<ext, file, config, working_directory, workspace, result, path, tempfile,
                   j, part, child, tool, nextPid, trace>>

Next ==
    \/ StartConfig
    \/ StartLayout
    \/ StartWorkspace
    \/ StartAppendLayout
    \/ StartSpawn
    \/ StartReturn
    \/ ToolSpawn
    \/ ToolWaitTimeout
    \/ ToolKill
    \/ ToolReap
    \/ ExecReturn

Spec == Init /\ [][Next]_vars

SpecExec == InitExec /\ [][Next]_vars

\* --------------------------------------------------- the verify loop
\* main.rs verify_project: verify, and while that fails let the operator
\* choose between reopening the editor and accepting the file as it is.
MaxReads == 3         \* characters the operator enters in one verify loop

\* a configuration that parses and refers to three paths
VerifyConfig ==
    [general |-> [working_directory |-> Some("C"), workspace |-> None, layout |-> <<"/", "x">>],
     applications |-> << [command |-> [program |-> "prog", args |-> <<"--flag">>],
                          working_directory |-> Some("B"),
                          exec |-> None] >>]

VerifyFiles == { [kind |-> "missing"], [kind |-> "invalid"],
                 [kind |-> "valid", cfg |-> VerifyConfig] }

\* the bytes getch can deliver
Bytes == {"a", "A", "r", "R", "x"}

\* a variable of the environment is unset, set to the empty string, or set
Environments == [VISUAL : {None, Some(""), Some("vi")}, EDITOR : {None, Some(""), Some("ed")}]

PathNames == {"/x", "B", "C"}

VerifyEv(res) == [ev |-> "verify", res |-> res]
PromptEv == [ev |-> "prompt"]
GetchEv(byte) == [ev |-> "getch", byte |-> byte]
EditorEv(editor, ok) == [ev |-> "editor", editor |-> editor, ok |-> ok]

RECURSIVE Concat(_)
Concat(s) == IF s = <<>> THEN "" ELSE Head(s) \o Concat(Tail(s))

\* the paths a configuration refers to: the working directories and the
\* layout, unless that is the layout's contents
ReferencedPaths(cfg) ==
    { Unwrap(cfg.general.working_directory) : x \in { y \in {1} : IsSome(cfg.general.working_directory) } }
    \cup { Unwrap(cfg.applications[a].working_directory) :
             a \in { b \in DOMAIN cfg.applications : IsSome(cfg.applications[b].working_directory) } }
    \cup { Concat(cfg.general.layout) : x \in { y \in {1} : ~HasBrace(cfg.general.layout) } }

\* a verify that also looks for the paths the configuration refers to
VerifyWithPaths ==
    IF ~load.ok THEN load.err
    ELSE IF ReferencedPaths(load.val) \subseteq existing THEN "Ok" ELSE "PathDoesntExist"

\* Project::verify: `self.load().map(|_| ())`
verify == IF load.ok THEN "Ok" ELSE load.err

\* the byte taken as it was entered
Verbatim(b) == b

\* u8::to_ascii_lowercase
to_ascii_lowercase(b) ==
    CASE b = "A" -> "a"
      [] b = "R" -> "r"
      [] OTHER   -> b

\* get_editor: VISUAL, or else EDITOR, and then only if it is not empty
get_editor ==
    LET s == OrElse(env.VISUAL, env.EDITOR)
    IN  IF IsSome(s) /\ Unwrap(s) /= "" THEN s ELSE None

\* the characters read so far
Reads == Cardinality({ k \in DOMAIN trace : trace[k].ev = "getch" })

\* verify_project is called on a project whose file is anything
InitVerify ==
    /\ file \in VerifyFiles
    /\ env \in Environments
    /\ existing \in SUBSET PathNames
    /\ LayoutIdle
    /\ DiskIdle
    /\ ParseIdle
    /\ ch = None
    /\ config = None
    /\ working_directory = None
    /\ workspace = None
    /\ pc = "verify"
    /\ result = "none"
    /\ path = None
    /\ tempfile = "none"
    /\ i = 0
    /\ j = 0
    /\ part = "text"
    /\ child = 0
    /\ tool = NoTool
    /\ nextPid = FirstPid
    /\ trace = <<>>

startVars == <<config, working_directory, workspace, path, tempfile, i, j, part,
               child, tool, nextPid>>

\* `while let Err(e) = project.verify()`: Ok ends the loop and verify_project
\* returns Ok(()); an error is printed and the choice is asked for
VerifyProject ==
    /\ pc = "verify"
    /\ trace' = Append(trace, VerifyEv(verify))
    /\ IF verify = "Ok"
       THEN /\ pc' = "done"
            /\ result' = "Ok"
       ELSE /\ pc' = "prompt"
            /\ UNCHANGED result
    /\ ch' = None
    /\ UNCHANGED <<file, env, existing, layoutVars, diskVars, parseVars, startVars>>

\* one round of the inner `while { ... } {}`: print the prompt, read one
\* byte (a failed read is None), lower it; the round is repeated unless the
\* character is 'a' or 'r'
VerifyPrompt ==
    /\ pc = "prompt"
    /\ Reads < MaxReads
    /\ \E r \in {None} \cup { Some(b) : b \in Bytes } :
          LET c == IF IsSome(r) THEN Some(to_ascii_lowercase(Unwrap(r))) ELSE None
          IN  /\ ch' = c
              /\ trace' = trace \o <<PromptEv, GetchEv(r)>>
              /\ pc' = IF c = Some("a") \/ c = Some("r") THEN "match" ELSE "prompt"
    /\ UNCHANGED <<file, result, env, existing, layoutVars, diskVars, parseVars, startVars>>

\* an accept that verifies once more before it returns
AcceptReverifies ==
    /\ pc = "match"
    /\ pc' = IF ch = Some("r") THEN "editor" ELSE "verify"
    /\ UNCHANGED <<file, result, trace, ch, env, existing, layoutVars, diskVars, parseVars, startVars>>

\* `match ch { Some('a') => break, Some('r') => open_editor(project)?,
\*             _ => continue }`
VerifyMatch ==
    /\ pc = "match"
    /\ CASE ch = Some("a") -> /\ pc' = "done"
                              /\ result' = "Ok"
         [] ch = Some("r") -> /\ pc' = "editor"
                              /\ UNCHANGED result
         [] OTHER          -> /\ pc' = "verify"
                              /\ UNCHANGED result
    /\ UNCHANGED <<file, trace, ch, env, existing, layoutVars, diskVars, parseVars, startVars>>

\* an editor whose return ends the loop with Ok, without verifying again
EditorThenAccept ==
    /\ pc = "editor"
    /\ IsSome(get_editor)
    /\ \E f \in VerifyFiles : file' = f
    /\ trace' = Append(trace, EditorEv(Unwrap(get_editor), TRUE))
    /\ pc' = "done"
    /\ result' = "Ok"
    /\ UNCHANGED <<ch, env, existing, layoutVars, diskVars, parseVars, startVars>>

\* open_editor: `Command::new(get_editor()?).arg(&project.path).status()
\* .map(|_| ())`, and the `?` on it in verify_project.  The editor's exit
\* status is dropped; while it runs the operator may leave any file behind.
OpenEditor ==
    /\ pc = "editor"
    /\ IF IsNone(get_editor)
       THEN /\ pc' = "done"
            /\ result' = "EditorNotFound"
            /\ UNCHANGED <<file, trace>>
       ELSE \E ok \in BOOLEAN :
              /\ trace' = Append(trace, EditorEv(Unwrap(get_editor), ok))
              /\ IF ok
                 THEN /\ \E f \in VerifyFiles : file' = f
                      /\ pc' = "verify"
                      /\ UNCHANGED result
                 ELSE /\ pc' = "done"
                      /\ result' = "Io"
                      /\ UNCHANGED file
    /\ UNCHANGED <<ch, env, existing, layoutVars, diskVars, parseVars, startVars>>

NextVerify ==
    \/ VerifyProject
    \/ VerifyPrompt
    \/ VerifyMatch
    \/ OpenEditor

SpecVerify == InitVerify /\ [][NextVerify]_vars

\* ---------------------------------------------------- the layout value
\* types.rs deserialize_layout classifies the layout string of a document
\* when the configuration is parsed; start resolves the value to a path.

\* layout strings: empty, the contents `{`, a name, and paths with a tilde
LayoutTexts == { <<>>, <<"{">>, <<"m">>, <<"~">>, <<"~", "/", "x">>, <<"~", "x">>, <<"/", "x">> }

\* the names a managed layout may have been created under
ManagedNames == { <<>>, <<"{">>, <<"m">>, <<"~">> }

Homes == { None, Some(<<"/", "h">>) }

Contents(s) == [variant |-> "Contents", value |-> s]
Managed(s) == [variant |-> "Managed", value |-> s]
Path(s) == [variant |-> "Path", value |-> s]

\* the documents: a layout string, a workspace and one application
LayoutDocuments ==
    { [kind |-> "document", layout |-> t, workspace |-> Some("1"),
       applications |-> << [command |-> [program |-> "prog", args |-> <<"--flag">>],
                            working_directory |-> None,
                            exec |-> None] >>] : t \in LayoutTexts }

\* XDG_DIRS.find_config_file in ConfigFile::open, as seen from outside
LookupEv(name, found) == [ev |-> "lookup", name |-> name, found |-> found]

\* config_path under the configuration directory: layouts/<name>.toml
layout_path(name) == <<"layouts/">> \o name \o <<".toml">>

\* ManagedLayout::open: Layout::open over ConfigFile::open
ManagedLayoutOpen(name) ==
    IF name \in layouts
    THEN [ok |-> TRUE, val |-> [name |-> name, path |-> layout_path(name)]]
    ELSE [ok |-> FALSE, err |-> "UnknownConfig"]

\* tilde_with_context with env::home_dir: `bytes[0]` panics on the empty
\* path; only `~` and `~/...` are expanded, and only if the home directory
\* is known
tilde(input) ==
    IF input = <<>>
    THEN [panic |-> TRUE]
    ELSE IF input[1] = "~"
         THEN LET input_after_tilde == Tail(input) IN
              IF input_after_tilde = <<>> \/ input_after_tilde[1] = "/"
              THEN IF IsSome(home)
                   THEN [panic |-> FALSE, val |-> Unwrap(home) \o input_after_tilde]
                   ELSE [panic |-> FALSE, val |-> input]
              ELSE [panic |-> FALSE, val |-> input]
         ELSE [panic |-> FALSE, val |-> input]

\* deserialize_layout's visit_str
deserialize_layout(value) ==
    IF HasBrace(value)
    THEN [panic |-> FALSE, val |-> Contents(value)]
    ELSE IF ManagedLayoutOpen(value).ok
         THEN [panic |-> FALSE, val |-> Managed(value)]
         ELSE LET t == tilde(value) IN
              IF t.panic THEN [panic |-> TRUE] ELSE [panic |-> FALSE, val |-> Path(t.val)]

\* a document is about to be parsed, with any layout store and home
InitLayout ==
    /\ file \in LayoutDocuments
    /\ layouts \in SUBSET ManagedNames
    /\ home \in Homes
    /\ VerifyIdle
    /\ DiskIdle
    /\ ParseIdle
    /\ config = None
    /\ working_directory = None
    /\ workspace = None
    /\ pc = "parse"
    /\ result = "none"
    /\ path = None
    /\ tempfile = "none"
    /\ i = 0
    /\ j = 0
    /\ part = "text"
    /\ child = 0
    /\ tool = NoTool
    /\ nextPid = FirstPid
    /\ trace = <<>>

\* Project::config parses the document: the layout string goes through
\* deserialize_layout, which asks the layout store unless the string
\* holds a `{`; a panic ends the process
DeserializeLayout ==
    /\ pc = "parse"
    /\ LET value == file.layout
           parsed == deserialize_layout(value)
       IN  /\ trace' = IF HasBrace(value) THEN trace
                       ELSE Append(trace, LookupEv(value, ManagedLayoutOpen(value).ok))
           /\ IF parsed.panic
              THEN /\ pc' = "done"
                   /\ result' = "panic"
                   /\ UNCHANGED config
              ELSE /\ pc' = "resolve"
                   /\ config' = Some([general |-> [working_directory |-> None,
                                                   workspace |-> file.workspace,
                                                   layout |-> parsed.val],
                                      applications |-> file.applications])
                   /\ UNCHANGED result
    /\ UNCHANGED <<ext, file, working_directory, workspace, path, tempfile, i, j, part,
                   child, tool, nextPid>>

\* between the parsing and the start somebody creates or deletes a managed
\* layout (Layout::create_from_template, Layout::delete)
LayoutStoreChange ==
    /\ pc = "resolve"
    /\ \E n \in ManagedNames :
          layouts' = IF n \in layouts THEN layouts \ {n} ELSE layouts \cup {n}
    /\ UNCHANGED <<verifyVars, diskVars, parseVars, home, file, config, working_directory, workspace, pc, result,
                   path, tempfile, i, j, part, child, tool, nextPid, trace>>

\* a resolver that hands out the path the layout had when it was parsed
ResolveStale ==
    /\ pc = "resolve"
    /\ path' = Some([name |-> layout_path(Cfg.general.layout.value), utf8 |-> TRUE])
    /\ pc' = "workspace"
    /\ UNCHANGED <<ext, file, config, working_directory, workspace, result, tempfile, trace,
                   i, j, part, child, tool, nextPid>>

\* the layout resolver of start: the contents go to a transient file, a
\* managed layout is looked up by its name now, a path is taken as it is
ResolveLayout ==
    /\ pc = "resolve"
    /\ LET layout == Cfg.general.layout IN
       CASE layout.variant = "Contents" ->
               \E ok \in BOOLEAN :
                 IF ok
                 THEN /\ tempfile' = "exists"
                      /\ path' = Some([name |-> <<"/", "t">>, utf8 |-> TRUE])
                      /\ trace' = Append(trace, TempCreateEv(layout.value))
                      /\ pc' = "workspace"
                      /\ UNCHANGED result
                 ELSE /\ Return("Io", <<>>)
                      /\ UNCHANGED path
         [] layout.variant = "Managed" ->
               LET opened == ManagedLayoutOpen(layout.value)
                   e == LookupEv(layout.value, opened.ok)
               IN  IF opened.ok
                   THEN /\ path' = Some([name |-> opened.val.path, utf8 |-> TRUE])
                        /\ trace' = Append(trace, e)
                        /\ pc' = "workspace"
                        /\ UNCHANGED <<result, tempfile>>
                   ELSE /\ Return(opened.err, <<e>>)
                        /\ UNCHANGED path
         [] layout.variant = "Path" ->
               /\ path' = Some([name |-> layout.value, utf8 |-> TRUE])
               /\ pc' = "workspace"
               /\ UNCHANGED <<result, tempfile, trace>>
    /\ UNCHANGED <<ext, file, config, working_directory, workspace, i, j, part, child, tool, nextPid>>

NextLayout ==
    \/ DeserializeLayout
    \/ LayoutStoreChange
    \/ ResolveLayout
    \/ StartWorkspace
    \/ StartAppendLayout
    \/ StartSpawn
    \/ StartReturn

SpecLayout == InitLayout /\ [][NextLayout]_vars

\* ------------------------------------------------ the handle's cache
\* Project::config keeps what it has parsed in the handle; the file may be
\* rewritten or deleted while the handle is alive, and other handles may
\* be opened for the same name.
MaxCalls == 3         \* calls of config() before start is called
MaxWrites == 1        \* times the file is rewritten or deleted
MaxVerifies == 1      \* calls of verify() before start is called

\* two configurations that start tells apart: a layout path with one
\* application, layout contents with none
CachedConfigs ==
    { [general |-> PlainGeneral,
       applications |-> << [command |-> [program |-> "prog", args |-> <<"--flag">>],
                            working_directory |-> None,
                            exec |-> None] >>],
      [general |-> [working_directory |-> None, workspace |-> None, layout |-> <<"{", "}">>],
       applications |-> <<>>] }

CachedFiles == { [kind |-> "missing"], [kind |-> "invalid"] }
               \cup { [kind |-> "valid", cfg |-> c] : c \in CachedConfigs }

\* config() on a handle returned res; the file was replaced by f
ConfigEv(handle, res) == [ev |-> "config", handle |-> handle, res |-> res]
WriteEv(f) == [ev |-> "write", file |-> f]

Calls == Cardinality({ k \in DOMAIN trace : trace[k].ev = "config" })
Writes == Cardinality({ k \in DOMAIN trace : trace[k].ev = "write" })
Verifies == Cardinality({ k \in DOMAIN trace : trace[k].ev = "verify" })

\* a handle that has parsed nothing yet, for a file that is anything
InitCache ==
    /\ file \in CachedFiles
    /\ VerifyIdle
    /\ LayoutIdle
    /\ DiskIdle
    /\ ParseIdle
    /\ config = None
    /\ working_directory = None
    /\ workspace = None
    /\ pc = "idle"
    /\ result = "none"
    /\ path = None
    /\ tempfile = "none"
    /\ i = 0
    /\ j = 0
    /\ part = "text"
    /\ child = 0
    /\ tool = NoTool
    /\ nextPid = FirstPid
    /\ trace = <<>>

\* a config() that reads the file every time it is called
ConfigReloading ==
    /\ pc = "idle"
    /\ Calls < MaxCalls
    /\ IF load.ok
       THEN config' = Some(load.val)
       ELSE UNCHANGED config
    /\ trace' = Append(trace, ConfigEv(1, load))
    /\ UNCHANGED <<ext, file, working_directory, workspace, pc, result, path, tempfile,
                   i, j, part, child, tool, nextPid>>

\* Project::config on the handle: `if self.config.is_none() { self.config =
\* Some(self.load()?); } Ok(self.config.as_ref().unwrap())`
ProjectConfig ==
    /\ pc = "idle"
    /\ Calls < MaxCalls
    /\ IF IsSome(config)
       THEN /\ trace' = Append(trace, ConfigEv(1, [ok |-> TRUE, val |-> Unwrap(config)]))
            /\ UNCHANGED config
       ELSE /\ trace' = Append(trace, ConfigEv(1, load))
            /\ IF load.ok
               THEN config' = Some(load.val)
               ELSE UNCHANGED config
    /\ UNCHANGED <<ext, file, working_directory, workspace, pc, result, path, tempfile,
                   i, j, part, child, tool, nextPid>>

\* another handle for the same name: Project::open (its config is None),
\* then config() on it; the handle is dropped afterwards
OtherConfig ==
    /\ pc = "idle"
    /\ Calls < MaxCalls
    /\ trace' = Append(trace, ConfigEv(2, IF file.kind = "missing"
                                          THEN [ok |-> FALSE, err |-> "UnknownProject"]
                                          ELSE load))
    /\ UNCHANGED <<ext, file, config, working_directory, workspace, pc, result, path,
                   tempfile, i, j, part, child, tool, nextPid>>

\* a verify that goes through config() and so keeps what it parsed
VerifyCaching ==
    /\ pc = "idle"
    /\ Verifies < MaxVerifies
    /\ trace' = Append(trace, VerifyEv(IF IsSome(config) THEN "Ok" ELSE verify))
    /\ config' = IF IsNone(config) /\ load.ok THEN Some(load.val) ELSE config
    /\ UNCHANGED <<ext, file, working_directory, workspace, pc, result, path, tempfile,
                   i, j, part, child, tool, nextPid>>

\* Project::verify on the handle: `self.load().map(|_| ())`
ProjectVerify ==
    /\ pc = "idle"
    /\ Verifies < MaxVerifies
    /\ trace' = Append(trace, VerifyEv(verify))
    /\ UNCHANGED <<ext, file, config, working_directory, workspace, pc, result, path,
                   tempfile, i, j, part, child, tool, nextPid>>

\* somebody rewrites or deletes the file
FileWrite ==
    /\ pc = "idle"
    /\ Writes < MaxWrites
    /\ \E f \in CachedFiles \ {file} :
          /\ file' = f
          /\ trace' = Append(trace, WriteEv(f))
    /\ UNCHANGED <<ext, config, working_directory, workspace, pc, result, path, tempfile,
                   i, j, part, child, tool, nextPid>>

\* start is called on the handle
StartCall ==
    /\ pc = "idle"
    /\ pc' = "config"
    /\ UNCHANGED <<ext, file, config, working_directory, workspace, result, path, tempfile,
                   i, j, part, child, tool, nextPid, trace>>

NextCache ==
    \/ ProjectConfig
    \/ ProjectVerify
    \/ OtherConfig
    \/ FileWrite
    \/ StartCall
    \/ StartConfig
    \/ StartLayout
    \/ StartWorkspace
    \/ StartAppendLayout
    \/ StartSpawn
    \/ StartReturn

SpecCache == InitCache /\ [][NextCache]_vars

\* ----------------------------------------------- the projects directory
\* create, copy, delete and rename of projects.rs and the rename of
\* configfile.rs, on one configuration directory (XDG_CONFIG_HOME, no
\* further XDG_CONFIG_DIRS).  An operation is called on a handle (`self`),
\* which names a file that may or may not exist: create hands out handles
\* for files that do not exist yet.

\* what a file may hold: a document that parses, one that does not, and
\* the beginning of a document (a copy that broke off)
FileContents == {"valid", "invalid"}
Truncated == "truncated"

ConfigHome == "/config/i3nator/"

\* project_path: projects/<name>.toml
project_path(name) == "projects/" \o name \o ".toml"

\* XDG_DIRS.find_config_file
find_config_file(name) == disk[name]

\* the bytes of a name (OsStr)
as_bytes(name) ==
    CASE name = "a" -> <<97>>
      [] name = "a-b" -> <<97, 45, 98>>
      [] name = NonUtf8Name -> <<255>>

\* the file name of project_path(name): the bytes of the name and of ".toml"
file_name(name) == as_bytes(name) \o <<46, 116, 111, 109, 108>>

\* Ord of byte strings (OsStr, and Path within one directory)
RECURSIVE Less(_, _)
Less(s, t) ==
    IF t = <<>> THEN FALSE
    ELSE IF s = <<>> THEN TRUE
    ELSE IF s[1] /= t[1] THEN s[1] < t[1]
    ELSE Less(Tail(s), Tail(t))

\* `files.sort()`: the files of S in the order of their paths, which within
\* one directory is the order of their file names
sort(S) ==
    CHOOSE q \in [1..Cardinality(S) -> S] :
        \A m, n \in 1..Cardinality(S) : m < n => Less(file_name(q[m]), file_name(q[n]))

\* list: the files of the directory (list_config_files_once), sorted as
\* paths (`files.sort()`), each mapped to its file_stem, which for
\* <name>.toml with a non-empty name is the name
Listing(d) == sort({ n \in Names : IsSome(d[n]) })
list == Listing(disk)

\* OsStr::to_string_lossy: what is not UTF-8 becomes U+FFFD
to_string_lossy(name) == IF name = NonUtf8Name THEN "<U+FFFD>" ELSE name

\* Project::verify on a handle for name: load opens, reads and parses
VerifyAt(name) ==
    CASE IsNone(disk[name]) -> "Io"
      [] Unwrap(disk[name]) = "valid" -> "Ok"
      [] OTHER -> "Toml"

\* Project::create: ProjectExists if the file is found; else the handle,
\* unless place_config_file cannot make the directories
Create(name) ==
    IF IsSome(find_config_file(name))
    THEN { [res |-> "ProjectExists", handle |-> None] }
    ELSE { [res |-> "Ok",
            handle |-> Some([name |-> to_string_lossy(name),
                             path |-> ConfigHome \o project_path(name)])],
           [res |-> "Io", handle |-> None] }

\* Project::copy: `Project::create(new_name)?; fs::copy(&self.path,
\* &new_project.path)?`.  fs::copy opens the source before it creates the
\* target; if it fails later the target may be left with part of the data.
Copy(self, new) ==
    LET created == Create(new)
        failed == { [res |-> c.res, handle |-> None, disk |-> disk] :
                      c \in { d \in created : d.res /= "Ok" } }
        copied == { [res |-> "Ok", handle |-> c.handle, disk |-> [disk EXCEPT ![new] = disk[self]]] :
                      c \in { d \in created : d.res = "Ok" } }
        broken == { [res |-> "Io", handle |-> None, disk |-> d] :
                      d \in { disk, [disk EXCEPT ![new] = Some(Truncated)] } }
    IN  IF \E c \in created : c.res = "Ok"
        THEN IF IsNone(disk[self])
             THEN failed \cup { [res |-> "Io", handle |-> None, disk |-> disk] }
             ELSE failed \cup copied \cup broken
        ELSE failed

\* any directory; no operation has run
InitDisk ==
    /\ disk \in [Names -> {None} \cup { Some(c) : c \in FileContents }]
    /\ call = NoCall
    /\ VerifyIdle
    /\ LayoutIdle
    /\ ParseIdle
    /\ file = [kind |-> "missing"]
    /\ config = None
    /\ working_directory = None
    /\ workspace = None
    /\ pc = "idle"
    /\ result = "none"
    /\ path = None
    /\ tempfile = "none"
    /\ i = 0
    /\ j = 0
    /\ part = "text"
    /\ child = 0
    /\ tool = NoTool
    /\ nextPid = FirstPid
    /\ trace = <<>>

restVars == <<verifyVars, layoutVars, parseVars, file, result, trace, startVars>>

\* a create that leaves an empty file behind
CreateTouching ==
    /\ pc = "idle"
    /\ \E name \in Names : \E c \in Create(name) :
          /\ call' = [op |-> "create", self |-> "-", new |-> name, before |-> disk,
                      res |-> c.res, handle |-> c.handle]
          /\ disk' = IF c.res = "Ok" THEN [disk EXCEPT ![name] = Some("invalid")] ELSE disk
    /\ UNCHANGED <<pc, restVars>>

\* Project::create(name)
ProjectCreate ==
    /\ pc = "idle"
    /\ \E name \in Names : \E c \in Create(name) :
          call' = [op |-> "create", self |-> "-", new |-> name, before |-> disk,
                   res |-> c.res, handle |-> c.handle]
    /\ UNCHANGED <<disk, pc, restVars>>

\* the file of a handle is written: File::create(&project.path) and
\* write_all, as create_from_template and the editor do
FileCreate ==
    /\ pc = "idle"
    /\ \E name \in Names : \E c \in FileContents :
          /\ disk' = [disk EXCEPT ![name] = Some(c)]
          /\ call' = [op |-> "write", self |-> "-", new |-> name, before |-> disk,
                      res |-> "Ok", handle |-> None]
    /\ UNCHANGED <<pc, restVars>>

\* Project::create_from_template(name, template): `Project::create(name)?;
\* File::create(&project.path)?; file.write_all(template)?; file.flush()?`
ProjectCreateFromTemplate ==
    /\ pc = "idle"
    /\ \E name \in Names, template \in FileContents : \E c \in Create(name) :
       \E io \in {"Ok", "create", "write"} :
          LET res == IF c.res /= "Ok" THEN c.res ELSE IF io = "Ok" THEN "Ok" ELSE "Io" IN
          /\ disk' = CASE c.res = "Ok" /\ io = "Ok" -> [disk EXCEPT ![name] = Some(template)]
                        [] c.res = "Ok" /\ io = "write" -> [disk EXCEPT ![name] = Some(Truncated)]
                        [] OTHER -> disk
          /\ call' = [op |-> "create_from_template", self |-> "-", new |-> name,
                      before |-> disk, res |-> res,
                      handle |-> IF res = "Ok" THEN c.handle ELSE None]
    /\ UNCHANGED <<pc, restVars>>

\* Project::open(name)
ProjectOpen ==
    /\ pc = "idle"
    /\ \E name \in Names :
          call' = [op |-> "open", self |-> "-", new |-> name, before |-> disk,
                   res |-> IF IsSome(find_config_file(name)) THEN "Ok" ELSE "UnknownProject",
                   handle |-> IF IsSome(find_config_file(name))
                              THEN Some([name |-> to_string_lossy(name),
                                         path |-> ConfigHome \o project_path(name)])
                              ELSE None]
    /\ UNCHANGED <<disk, pc, restVars>>

\* project.copy(new_name)
ProjectCopy ==
    /\ pc = "idle"
    /\ \E self \in Names, new \in Names : \E c \in Copy(self, new) :
          /\ disk' = c.disk
          /\ call' = [op |-> "copy", self |-> self, new |-> new, before |-> disk,
                      res |-> c.res, handle |-> c.handle]
    /\ UNCHANGED <<pc, restVars>>

\* project.delete(): `fs::remove_file(&self.path)?`
ProjectDelete ==
    /\ pc = "idle"
    /\ \E self \in Names : \E ok \in BOOLEAN :
          /\ disk' = IF ok /\ IsSome(disk[self]) THEN [disk EXCEPT ![self] = None] ELSE disk
          /\ call' = [op |-> "delete", self |-> self, new |-> "-", before |-> disk,
                      res |-> IF ok /\ IsSome(disk[self]) THEN "Ok" ELSE "Io", handle |-> None]
    /\ UNCHANGED <<pc, restVars>>

\* project.rename(new_name), first half: `let new_project =
\* self.copy(new_name)?;`
RenameCopy ==
    /\ pc = "idle"
    /\ \E self \in Names, new \in Names : \E c \in Copy(self, new) :
          /\ disk' = c.disk
          /\ call' = [op |-> "rename", self |-> self, new |-> new, before |-> disk,
                      res |-> IF c.res = "Ok" THEN "none" ELSE c.res, handle |-> c.handle]
          /\ pc' = IF c.res = "Ok" THEN "rename_delete" ELSE "idle"
    /\ UNCHANGED restVars

\* a rename that returns the new project without deleting the old file
RenameKeepingOld ==
    /\ pc = "rename_delete"
    /\ call' = [call EXCEPT !.res = "Ok"]
    /\ pc' = "idle"
    /\ UNCHANGED <<disk, restVars>>

\* project.rename(new_name), second half: `self.delete()?; Ok(new_project)`
RenameDelete ==
    /\ pc = "rename_delete"
    /\ \E ok \in BOOLEAN :
          IF ok
          THEN /\ disk' = [disk EXCEPT ![call.self] = None]
               /\ call' = [call EXCEPT !.res = "Ok"]
          ELSE /\ call' = [call EXCEPT !.res = "Io", !.handle = None]
               /\ UNCHANGED disk
    /\ pc' = "idle"
    /\ UNCHANGED restVars

\* ConfigFile::rename: `ConfigFile::create(prefix, new_name)?;
\* fs::rename(&self.path, &new_configfile.path)?`
ConfigFileRename ==
    /\ pc = "idle"
    /\ \E self \in Names, new \in Names : \E c \in Create(new) : \E ok \in BOOLEAN :
          LET moved == c.res = "Ok" /\ ok /\ IsSome(disk[self]) IN
          /\ disk' = IF moved THEN [disk EXCEPT ![new] = disk[self], ![self] = None] ELSE disk
          /\ call' = [op |-> "configfile_rename", self |-> self, new |-> new, before |-> disk,
                      res |-> IF c.res /= "Ok" THEN c.res ELSE IF moved THEN "Ok" ELSE "Io",
                      handle |-> IF moved THEN c.handle ELSE None]
    /\ UNCHANGED <<pc, restVars>>

NextDisk ==
    \/ ProjectCreate
    \/ ProjectCreateFromTemplate
    \/ ProjectOpen
    \/ FileCreate
    \/ ProjectCopy
    \/ ProjectDelete
    \/ RenameCopy
    \/ RenameDelete
    \/ ConfigFileRename

SpecDisk == InitDisk /\ [][NextDisk]_vars

\* ------------------------------------------- deserializing the fields
\* The deserializers of types.rs and the word splitter of shlex.rs, each
\* applied to one value of a document.  A string is a sequence of
\* characters.

MaxLen == 7           \* characters in a command string

\* the characters of a command string: a letter, the blank, the two quotes
Chars == {"a", " ", "'", "\""}

Strings == UNION { [1..n -> Chars] : n \in 0..MaxLen }

Ok(v) == [ok |-> TRUE, val |-> v]
Err(e) == [ok |-> FALSE, err |-> e]

\* Shlex::next_byte: the byte at the offset, if any; `self.offset += 1`
\* happens in either case
next_byte(in_str, offset) ==
    [ch |-> IF offset < Len(in_str) THEN Some(in_str[offset + 1]) ELSE None,
     offset |-> offset + 1]

\* Shlex::parse_double / parse_single: skip to the closing quote; Err at
\* the end of the string
RECURSIVE parse_quote(_, _, _)
parse_quote(in_str, offset, quote) ==
    LET b == next_byte(in_str, offset) IN
    IF IsNone(b.ch) THEN [ok |-> FALSE, offset |-> b.offset]
    ELSE IF Unwrap(b.ch) = quote THEN [ok |-> TRUE, offset |-> b.offset]
    ELSE parse_quote(in_str, b.offset, quote)

\* the `loop` of next_word, entered with the byte read last: ends at a
\* blank outside quotes or at the end of the string, Err inside an
\* unterminated quote
RECURSIVE word_loop(_, _, _)
word_loop(in_str, offset, byte) ==
    IF IsNone(byte) THEN [ok |-> TRUE, offset |-> offset]
    ELSE IF Unwrap(byte) \in {" ", "\t", "\n"} THEN [ok |-> TRUE, offset |-> offset]
    ELSE LET res == IF Unwrap(byte) \in {"'", "\""}
                    THEN parse_quote(in_str, offset, Unwrap(byte))
                    ELSE [ok |-> TRUE, offset |-> offset]
         IN  IF ~res.ok THEN res
             ELSE LET b == next_byte(in_str, res.offset)
                  IN  word_loop(in_str, b.offset, b.ch)

\* str::trim_matches: quote characters are removed from both ends
RECURSIVE trim_start(_)
trim_start(w) ==
    IF w /= <<>> /\ w[1] \in {"'", "\""} THEN trim_start(Tail(w)) ELSE w
RECURSIVE trim_end(_)
trim_end(w) ==
    IF w /= <<>> /\ w[Len(w)] \in {"'", "\""} THEN trim_end(SubSeq(w, 1, Len(w) - 1)) ELSE w
trim_matches(w) == trim_end(trim_start(w))

\* Shlex::next_word: Ok(None) at the end of the string, Err in an
\* unterminated quote, else the bytes [start_offset, offset - 1) trimmed
next_word(in_str, offset) ==
    LET start_offset == offset
        b == next_byte(in_str, offset)
    IN  IF IsNone(b.ch) THEN [kind |-> "end"]
        ELSE LET l == word_loop(in_str, b.offset, b.ch) IN
             IF ~l.ok THEN [kind |-> "err"]
             ELSE [kind |-> "word",
                   word |-> trim_matches(SubSeq(in_str, start_offset + 1, l.offset - 1)),
                   offset |-> l.offset]

\* Iterator for Shlex, collected: `self.next_word().ok()` ends the
\* iteration at the end of the string and at an error
RECURSIVE collect(_, _)
collect(in_str, offset) ==
    LET w == next_word(in_str, offset) IN
    IF w.kind = "word" THEN <<w.word>> \o collect(in_str, w.offset) ELSE <<>>

\* shlex::split
split(in_str) ==
    LET res == collect(in_str, 0) IN
    IF res = <<>> THEN None ELSE Some(res)

\* the tokens of the sequence and map forms
Tokens == { <<>>, <<"a">>, <<"a", " ", "a">> }
TokenLists == UNION { [1..n -> Tokens] : n \in 0..2 }

\* the values of `command`: a string, a sequence of strings, or a map
\* with `program` and, optionally, `args`
CommandInputs ==
    { [field |-> "command", form |-> "str", text |-> v] : v \in Strings }
    \cup { [field |-> "command", form |-> "seq", items |-> v] : v \in TokenLists }
    \cup { [field |-> "command", form |-> "map", program |-> q, args |-> a] :
             q \in {None} \cup { Some(t) : t \in Tokens },
             a \in {None} \cup { Some(l) : l \in TokenLists } }

ApplicationCommand(program, args) == [program |-> program, args |-> args]

\* deserialize_application_command: visit_str, visit_seq, visit_map (the
\* derived Deserialize: `program` is required, `args` defaults to empty)
deserialize_application_command(in) ==
    CASE in.form = "str" ->
            LET v == split(in.text) IN
            IF IsSome(v) /\ Unwrap(v) /= <<>>
            THEN Ok(ApplicationCommand(Head(Unwrap(v)), Tail(Unwrap(v))))
            ELSE Err("command can not be empty")
      [] in.form = "seq" ->
            IF in.items = <<>>
            THEN Err("command can not be empty")
            ELSE Ok(ApplicationCommand(Head(in.items), Tail(in.items)))
      [] in.form = "map" ->
            IF IsNone(in.program)
            THEN Err("missing field program")
            ELSE Ok(ApplicationCommand(Unwrap(in.program), OrElse(in.args, Some(<<>>))[1]))

\* the values of `exec`: a string, a sequence of strings, or a map with
\* `commands` and, optionally, `exec_type` and `timeout` (whole seconds,
\* not negative)
ExecInputs ==
    { [field |-> "exec", form |-> "str", command |-> c] : c \in {"", "c1"} }
    \cup { [field |-> "exec", form |-> "seq", commands |-> l] : l \in CommandLists }
    \cup { [field |-> "exec", form |-> "map", commands |-> l, exec_type |-> e, timeout |-> t] :
             l \in {None} \cup { Some(c) : c \in CommandLists },
             e \in {None} \cup { Some(x) : x \in ExecTypes },
             t \in {None, Some(0), Some(10)} }

\* default_exec_type
default_exec_type == "Text"

\* default_timeout: Duration::from_secs(5)
default_timeout == DefaultTimeout

Exec(commands, exec_type, timeout) ==
    [commands |-> commands, exec_type |-> exec_type, timeout |-> timeout]

\* deserialize_duration, visit_i64: `Duration::from_secs(value as u64)`,
\* for a value that is not negative
deserialize_duration(value) == value

\* deserialize_exec: visit_str, visit_seq, visit_map (the derived
\* Deserialize: `commands` is required and taken as it is, `exec_type`
\* and `timeout` have defaults)
deserialize_exec(in) ==
    CASE in.form = "str" ->
            Ok(Exec(<<in.command>>, default_exec_type, default_timeout))
      [] in.form = "seq" ->
            IF in.commands = <<>>
            THEN Err("commands can not be empty")
            ELSE Ok(Exec(in.commands, default_exec_type, default_timeout))
      [] in.form = "map" ->
            IF IsNone(in.commands)
            THEN Err("missing field commands")
            ELSE Ok(Exec(Unwrap(in.commands),
                         IF IsSome(in.exec_type) THEN Unwrap(in.exec_type) ELSE default_exec_type,
                         IF IsSome(in.timeout)
                         THEN deserialize_duration(Unwrap(in.timeout))
                         ELSE default_timeout))

\* General.working_directory, Application.working_directory and
\* General.layout, given as a string
PathInputs ==
    { [field |-> "working_directory", path |-> p] : p \in LayoutTexts }
        \cup { [field |-> "layout", layout |-> t] : t \in LayoutTexts }

\* deserialize_pathbuf_with_tilde: the string as a PathBuf, through tilde
deserialize_pathbuf_with_tilde(in) == tilde(in.path)

\* deserialize_opt_pathbuf_with_tilde is `.map(Some)` over it
deserialize_opt_pathbuf_with_tilde(in) ==
    LET pathbuf == deserialize_pathbuf_with_tilde(in) IN
    IF pathbuf.panic THEN pathbuf ELSE [panic |-> FALSE, val |-> Some(pathbuf.val)]

ParseInputs == CommandInputs \cup ExecInputs \cup PathInputs

\* a value of a document is about to be deserialized
InitParse ==
    /\ toml \in ParseInputs
    /\ output = NoOutput
    /\ layouts \in (IF toml.field = "layout" THEN SUBSET ManagedNames ELSE {{}})
    /\ home \in Homes
    /\ VerifyIdle
    /\ DiskIdle
    /\ file = [kind |-> "missing"]
    /\ config = None
    /\ working_directory = None
    /\ workspace = None
    /\ pc = "deserialize"
    /\ result = "none"
    /\ path = None
    /\ tempfile = "none"
    /\ i = 0
    /\ j = 0
    /\ part = "text"
    /\ child = 0
    /\ tool = NoTool
    /\ nextPid = FirstPid
    /\ trace = <<>>

parseRest == <<verifyVars, layoutVars, diskVars, toml, file, trace, startVars>>

\* Application.command
DeserializeApplicationCommand ==
    /\ pc = "deserialize"
    /\ toml.field = "command"
    /\ output' = deserialize_application_command(toml)
    /\ pc' = "deserialized"
    /\ UNCHANGED <<result, parseRest>>

\* Application.exec: deserialize_opt_exec is `deserialize_exec(..).map(Some)`
DeserializeExec ==
    /\ pc = "deserialize"
    /\ toml.field = "exec"
    /\ output' = deserialize_exec(toml)
    /\ pc' = "deserialized"
    /\ UNCHANGED <<result, parseRest>>

\* General.working_directory and Application.working_directory: a panic of
\* the tilde expansion unwinds out of the parser and ends the process
DeserializeOptPathbufWithTilde ==
    /\ pc = "deserialize"
    /\ toml.field = "working_directory"
    /\ LET expanded == deserialize_opt_pathbuf_with_tilde(toml) IN
       IF expanded.panic
       THEN /\ pc' = "done"
            /\ result' = "panic"
            /\ UNCHANGED output
       ELSE /\ pc' = "deserialized"
            /\ output' = Ok(expanded.val)
            /\ UNCHANGED result
    /\ UNCHANGED parseRest

\* General.layout, with the layout store as it is at that moment
DeserializeLayoutField ==
    /\ pc = "deserialize"
    /\ toml.field = "layout"
    /\ LET layout == deserialize_layout(toml.layout) IN
       IF layout.panic
       THEN /\ pc' = "done"
            /\ result' = "panic"
            /\ UNCHANGED output
       ELSE /\ pc' = "deserialized"
            /\ output' = Ok(layout.val)
            /\ UNCHANGED result
    /\ UNCHANGED parseRest

NextParse ==
    \/ DeserializeApplicationCommand
    \/ DeserializeExec
    \/ DeserializeOptPathbufWithTilde
    \/ DeserializeLayoutField

SpecParse == InitParse /\ [][NextParse]_vars

TypeOK ==
    /\ pc \in {"config", "layout", "workspace", "append", "apps", "exec",
               "tool_wait", "tool_kill", "tool_reap", "done",
               "verify", "prompt", "match", "editor", "parse", "resolve", "idle",
               "rename_delete", "deserialize", "deserialized"}
    /\ result \in {"none", "Ok", "Io", "Toml", "Ipc", "InvalidUtF8Path", "TextOrKeyInputFailed",
                   "EditorNotFound", "UnknownConfig", "panic", "UnknownProject"}
    /\ tempfile \in {"none", "exists", "removed"}
    /\ part \in {"text", "return"}
    /\ (pc = "done") = (result /= "none")

\* ------------------------------------------------------------ the trace
IsIpc(e, name) == e.ev = "ipc" /\ e.cmd[1] = name
IsSpawn(e) == e.ev = "spawn"
IsTool(e) == e.ev = "tool"

WorkspacePos == { k \in DOMAIN trace : IsIpc(trace[k], "workspace") }
AppendPos == { k \in DOMAIN trace : IsIpc(trace[k], "append_layout") }
SpawnPos == { k \in DOMAIN trace : IsSpawn(trace[k]) }
ToolPos == { k \in DOMAIN trace : IsTool(trace[k]) }

\* the IPC commands and application spawns, in the order they happened
Visible == SelectSeq(trace, LAMBDA e : e.ev = "ipc" \/ e.ev = "spawn")

\* ------------------------------------------------------------------- C1
\* C1: every application start spawns runs in the directory chosen by strict
\* precedence: the CLI override if given, else the application's own
\* working_directory, else general.working_directory, else none (inherited);
\* the CLI override applies to every application.
C1_WorkingDirectoryPrecedence ==
    \A k \in SpawnPos :
        LET application == Cfg.applications[trace[k].app]
            general == Cfg.general
        IN  trace[k].cwd =
                CASE working_directory /= None -> working_directory
                  [] application.working_directory /= None -> application.working_directory
                  [] general.working_directory /= None -> general.working_directory
                  [] OTHER -> None

\* two applications of one run, without a CLI override: the one that has its
\* own directory gets it although general sets one, the other gets general's
C1_Witness ==
    /\ result = "Ok"
    /\ working_directory = None
    /\ \E k, m \in SpawnPos :
          /\ trace[k].cwd = Some("B")
          /\ trace[m].cwd = Some("C")

\* ------------------------------------------------------------------- C2
\* C2: the effective workspace is the override if given, else
\* general.workspace, else none; once start is past its workspace step it
\* has sent "workspace <name>" exactly once if there is an effective
\* workspace and not at all if there is none, and it never sends another.
C2_WorkspaceCommand ==
    /\ Cardinality(WorkspacePos) <= 1
    /\ (IsNone(config) \/ IsNone(path)) => WorkspacePos = {}
    /\ (IsSome(path) /\ pc /= "workspace") =>
          LET effective == IF workspace /= None THEN workspace
                           ELSE Cfg.general.workspace
          IN  IF effective = None
              THEN WorkspacePos = {}
              ELSE /\ Cardinality(WorkspacePos) = 1
                   /\ \A k \in WorkspacePos :
                         trace[k].cmd = <<"workspace", effective[1]>>

\* the override wins over the workspace of the configuration
C2_Witness ==
    /\ result = "Ok"
    /\ workspace = Some("9")
    /\ Cfg.general.workspace = Some("1")
    /\ \E k \in WorkspacePos : trace[k].cmd = <<"workspace", "9">>

\* ------------------------------------------------------------------- C3
\* C3: a start that returns Ok has sent the workspace command (iff a
\* workspace was resolved), then exactly one append_layout, then spawned each
\* configured application exactly once in declared order; and in no run is
\* an application spawned before append_layout was sent.
C3_StartOrder ==
    /\ \A k \in SpawnPos : \E a \in AppendPos : a < k /\ trace[a].ok
    /\ \A k \in AppendPos : \A w \in WorkspacePos : w < k
    /\ result = "Ok" =>
          LET n == Len(Cfg.applications)
              w == Cardinality(WorkspacePos)
          IN  /\ Len(Visible) = w + 1 + n
              /\ w = 1 => IsIpc(Visible[1], "workspace")
              /\ IsIpc(Visible[w + 1], "append_layout")
              /\ \A k \in 1..n :
                    /\ IsSpawn(Visible[w + 1 + k])
                    /\ Visible[w + 1 + k].app = k
                    /\ Visible[w + 1 + k].program = Cfg.applications[k].command.program
                    /\ Visible[w + 1 + k].args = Cfg.applications[k].command.args
                    /\ Visible[w + 1 + k].ok

\* a run with a workspace and all MaxApps applications
C3_Witness ==
    /\ result = "Ok"
    /\ WorkspacePos /= {}
    /\ Len(Cfg.applications) = MaxApps
    /\ Cardinality(SpawnPos) = MaxApps

\* ------------------------------------------------------------------- C4
\* C4: a failed workspace command ends start with that error, with no
\* append_layout sent and no application spawned; a failed append_layout
\* ends start with that error and no application spawned; neither command
\* is sent a second time.
C4_IpcFailureAborts ==
    /\ Cardinality(WorkspacePos) <= 1
    /\ Cardinality(AppendPos) <= 1
    /\ \A k \in WorkspacePos :
          ~trace[k].ok => /\ pc = "done"
                          /\ result = "Ipc"
                          /\ AppendPos = {}
                          /\ SpawnPos = {}
    /\ \A k \in AppendPos :
          ~trace[k].ok => /\ pc = "done"
                          /\ result = "Ipc"
                          /\ SpawnPos = {}

\* the workspace command failed for a project that has applications
C4_Witness ==
    /\ \E k \in WorkspacePos : ~trace[k].ok
    /\ Len(Cfg.applications) > 0
    /\ result = "Ipc"

\* ------------------------------------------------------------------- C5
\* C5: if the configuration cannot be loaded or parsed, start returns that
\* error and has done nothing: no IPC command, no transient file, no spawn.
C5_ConfigFailureNoSideEffect ==
    file.kind /= "valid" =>
        /\ pc \in {"config", "done"}
        /\ trace = <<>>
        /\ tempfile = "none"
        /\ config = None
        /\ pc = "done" => result = (IF file.kind = "missing" THEN "Io" ELSE "Toml")

\* start has returned the parse error
C5_Witness ==
    /\ file.kind = "invalid"
    /\ pc = "done"
    /\ result = "Toml"

\* ------------------------------------------------------------------- C6
\* C6: if the resolved layout path is not valid UTF-8, no append_layout is
\* ever sent and no application is spawned; start fails with InvalidUtF8Path
\* when it comes to append the layout (it returns the IPC error instead only
\* if the workspace command before it has failed).
C6_InvalidUtf8Path ==
    (IsSome(path) /\ ~Unwrap(path).utf8) =>
        /\ pc \in {"workspace", "append", "done"}
        /\ AppendPos = {}
        /\ SpawnPos = {}
        /\ pc = "done" =>
              \/ result = "InvalidUtF8Path"
              \/ result = "Ipc" /\ \E k \in WorkspacePos : ~trace[k].ok

\* start has switched the workspace and then failed on the path, for a
\* project that has applications
C6_Witness ==
    /\ result = "InvalidUtF8Path"
    /\ \E k \in WorkspacePos : trace[k].ok
    /\ Len(Cfg.applications) > 0

\* ------------------------------------------------------------------- C7
\* C7: if spawning application k fails, start returns that error at once:
\* no later application is spawned, k is not tried again, and start does
\* nothing to the applications 1..k-1 it has spawned (it neither kills nor
\* waits for any of them).
C7_SpawnFailureAborts ==
    \A k \in SpawnPos :
        ~trace[k].ok =>
            LET a == trace[k].app IN
            /\ pc = "done"
            /\ result = "Io"
            /\ \A m \in SpawnPos : m <= k
            /\ { trace[m].app : m \in SpawnPos } = 1..a
            /\ \A b \in 1..a : Cardinality({ m \in SpawnPos : trace[m].app = b }) = 1
            /\ \A m \in SpawnPos \ {k} :
                  /\ trace[m].ok
                  /\ \A e \in DOMAIN trace :
                        trace[e].ev \in {"kill", "wait", "wait_timeout"}
                            => trace[e].pid /= trace[m].pid

\* the second of three applications failed to spawn
C7_Witness ==
    /\ IsSome(config)
    /\ Len(Cfg.applications) = 3
    /\ \E k \in SpawnPos : ~trace[k].ok /\ trace[k].app = 2

\* ----------------------------------------------------- the input driver
\* where application a was spawned
SpawnOf(a) == CHOOSE k \in SpawnPos : trace[k].app = a
Spawned(a) == \E k \in SpawnPos : trace[k].app = a /\ trace[k].ok

\* the trace from the spawn of application a up to the next spawn
SegmentOf(a) ==
    LET from == SpawnOf(a)
        later == { k \in SpawnPos : k > from }
        to == IF later = {} THEN Len(trace) ELSE (CHOOSE k \in later : \A m \in later : k <= m) - 1
    IN  SubSeq(trace, from + 1, to)

\* the xdotool invocations made for application a, in order
ToolsOf(a) == SelectSeq(SegmentOf(a), IsTool)

\* application a has been dealt with: a later one was spawned, or start is through
Completed(a) == result = "Ok" \/ \E k \in SpawnPos : trace[k].app > a

AppPids == { trace[k].pid : k \in { m \in SpawnPos : trace[m].ok } }

\* event r says that the tool process pid has ended
Ended(r, pid) ==
    \/ trace[r].ev = "wait_timeout" /\ trace[r].pid = pid /\ trace[r].exited
    \/ /\ trace[r].ev = "wait" /\ trace[r].pid = pid
       /\ \E q \in 1..(r - 1) : trace[q] = KillEv(pid)

\* the number of invocations an exec section asks for
InvocationCount(exec) ==
    CASE exec.exec_type = "Text" -> 2 * Len(exec.commands)
      [] exec.exec_type = "TextNoReturn" -> Len(exec.commands)
      [] exec.exec_type = "Keys" -> 1

\* ------------------------------------------------------------------- C8
\* C8: when an application is spawned, every xdotool process started for
\* the applications before it has ended (exited, or killed and reaped), and
\* all invocations of an earlier application's exec section have been made;
\* start never waits for (or kills) an application process.
C8_InputBeforeNextSpawn ==
    /\ \A s \in SpawnPos : \A t \in ToolPos :
          (t < s /\ trace[t].ok) => \E r \in (t + 1)..(s - 1) : Ended(r, trace[t].pid)
    /\ pc = "apps" => tool.status \in {"none", "exited", "reaped"}
    /\ \A s \in SpawnPos : \A a \in 1..(trace[s].app - 1) :
          LET exec == Cfg.applications[a].exec IN
          Len(ToolsOf(a)) = IF IsSome(exec) THEN InvocationCount(Unwrap(exec)) ELSE 0
    /\ \A e \in DOMAIN trace :
          trace[e].ev \in {"kill", "wait", "wait_timeout"} => trace[e].pid \notin AppPids

\* the second application is spawned after the four invocations of the first
C8_Witness ==
    /\ IsSome(config)
    /\ \E s \in SpawnPos : trace[s].app = 2
    /\ IsSome(Cfg.applications[1].exec)
    /\ Len(ToolsOf(1)) = 4

\* ------------------------------------------------------------------- C9
\* the arguments after the window locator
TypeArgs(text) == <<"type", "--window", "%1", text>>
KeyArgs(keys) == <<"key", "--window", "%1">> \o keys

\* what the input driver is to invoke for an exec section, in order
Expected(exec) ==
    LET c == exec.commands
        n == Len(c)
    IN  CASE exec.exec_type = "Text" ->
                [m \in 1..(2 * n) |-> IF m % 2 = 1 THEN TypeArgs(c[(m + 1) \div 2])
                                      ELSE KeyArgs(<<"Return">>)]
          [] exec.exec_type = "TextNoReturn" -> [m \in 1..n |-> TypeArgs(c[m])]
          [] exec.exec_type = "Keys" -> << KeyArgs(c) >>

LocatorLen == 10

\* C9: for an exec section with commands c1..cn the invocations made are, in
\* order, type(c1), key(Return), ..., type(cn), key(Return) for Text,
\* type(c1), ..., type(cn) for TextNoReturn, and one key(c1..cn) for Keys:
\* never more, and all of them once every tool has exited in time; every
\* invocation starts with the same locator, which names the child's pid.
C9_InvocationSequence ==
    \A a \in { trace[k].app : k \in SpawnPos } :
        Spawned(a) =>
            LET exec == Cfg.applications[a].exec
                tools == ToolsOf(a)
                want == IF IsSome(exec) THEN Expected(Unwrap(exec)) ELSE <<>>
                pid == trace[SpawnOf(a)].pid
            IN  /\ Len(tools) <= Len(want)
                /\ Completed(a) => Len(tools) = Len(want)
                /\ \A m \in 1..Len(tools) :
                      /\ SubSeq(tools[m].argv, LocatorLen + 1, Len(tools[m].argv)) = want[m]
                      /\ SubSeq(tools[m].argv, 1, LocatorLen) = SubSeq(tools[1].argv, 1, LocatorLen)
                      /\ tools[m].argv[5] = "--pid"
                      /\ tools[m].argv[6] = ToString(pid)

\* a Text section with two commands and a Keys section with two keys, both
\* input completely
C9_Witness ==
    /\ result = "Ok"
    /\ \E a, b \in 1..Len(Cfg.applications) :
          /\ IsSome(Cfg.applications[a].exec)
          /\ Unwrap(Cfg.applications[a].exec).exec_type = "Text"
          /\ Len(ToolsOf(a)) = 4
          /\ IsSome(Cfg.applications[b].exec)
          /\ Unwrap(Cfg.applications[b].exec).exec_type = "Keys"
          /\ Len(Unwrap(Cfg.applications[b].exec).commands) = 2
          /\ Len(ToolsOf(b)) = 1

IsGetch(e, bytes) == e.ev = "getch" /\ e.byte \in { Some(b) : b \in bytes }
IsEditor(e) == e.ev = "editor"
Last == trace[Len(trace)]

\* ------------------------------------------------------------------ C12
\* C12: when verification has failed and the operator enters 'a' or 'A',
\* the loop returns Ok at once: nothing happens after that read (no
\* verification, no editor) and the file is still not valid; when the
\* first verification succeeds the loop returns Ok and that verification
\* is all that happened (no prompt, no read).
C12_AcceptReturnsOk ==
    /\ \A k \in DOMAIN trace :
          IsGetch(trace[k], {"a", "A"}) =>
              /\ k = Len(trace)
              /\ pc \in {"match", "done"}
              /\ pc = "done" => result = "Ok"
              /\ file.kind /= "valid"
    /\ (trace /= <<>> /\ trace[1] = VerifyEv("Ok")) =>
          /\ Len(trace) = 1
          /\ pc = "done"
          /\ result = "Ok"

\* the operator has accepted a file that does not parse with 'A'
C12_Witness ==
    /\ pc = "done"
    /\ result = "Ok"
    /\ file.kind = "invalid"
    /\ IsGetch(Last, {"A"})

\* ------------------------------------------------------------------ C13
\* the loop has ended after at least one failed verification
EndedAfterFailure == pc = "done" /\ Len(trace) > 1

AcceptedAtEnd == IsGetch(Last, {"a", "A"}) /\ result = "Ok"

RetriedToSuccess ==
    /\ Len(trace) >= 3
    /\ Last = VerifyEv("Ok")
    /\ IsEditor(trace[Len(trace) - 1])
    /\ IsGetch(trace[Len(trace) - 2], {"r", "R"})
    /\ result = "Ok"

\* C13 as stated: after a failed verification the loop ends only through
\* 'a', or through 'r' followed by a verification that succeeds.
C13_EndsOnlyByChoice ==
    EndedAfterFailure => (AcceptedAtEnd \/ RetriedToSuccess)

\* C13: each 'r' or 'R' entered after a failed verification makes exactly
\* one attempt to open the editor; once the editor has run, verification is
\* run again, and a verification that fails asks for the choice again
\* whatever the number of rounds before it.  If the editor cannot be opened
\* (none is configured, or it cannot be started) the loop ends with that
\* error without verifying again.  After a failed verification the loop
\* ends only through 'a', through 'r' followed by a verification that
\* succeeds, or through 'r' when the editor cannot be opened.
C13_ReopenThenVerify ==
    /\ \A k \in DOMAIN trace :
          IsGetch(trace[k], {"r", "R"}) =>
              IF k = Len(trace)
              THEN \/ pc \in {"match", "editor"}
                   \/ pc = "done" /\ result = "EditorNotFound" /\ IsNone(get_editor)
              ELSE IsEditor(trace[k + 1])
    /\ \A k \in DOMAIN trace :
          IsEditor(trace[k]) =>
              /\ k > 1
              /\ IsGetch(trace[k - 1], {"r", "R"})
              /\ IF trace[k].ok
                 THEN IF k = Len(trace) THEN pc = "verify" ELSE trace[k + 1].ev = "verify"
                 ELSE k = Len(trace) /\ pc = "done" /\ result = "Io"
    /\ \A k \in DOMAIN trace :
          (trace[k].ev = "verify" /\ trace[k].res /= "Ok") =>
              IF k = Len(trace) THEN pc = "prompt" ELSE trace[k + 1] = PromptEv
    /\ EndedAfterFailure =>
          \/ AcceptedAtEnd
          \/ RetriedToSuccess
          \/ result = "EditorNotFound" /\ IsGetch(Last, {"r", "R"})
          \/ result = "Io" /\ IsEditor(Last) /\ ~Last.ok

\* the editor was reopened twice and the third verification has failed too:
\* the choice is asked for again
C13_Witness ==
    /\ Cardinality({ k \in DOMAIN trace : IsEditor(trace[k]) /\ trace[k].ok }) = 2
    /\ Cardinality({ k \in DOMAIN trace : trace[k].ev = "verify" }) = 3
    /\ pc = "prompt"

\* ------------------------------------------------------------------ C14
\* C14: an input other than 'a', 'A', 'r', 'R', a failed read included,
\* only has the prompt shown again: the next thing that happens is another
\* prompt (no verification, no editor) and the loop has not ended, however
\* many such inputs came before; 'A' and 'R' are taken as 'a' and 'r'.
C14_OtherInputReprompts ==
    \A k \in DOMAIN trace :
        trace[k].ev = "getch" =>
            /\ k > 1
            /\ trace[k - 1] = PromptEv
            /\ IF IsGetch(trace[k], {"a", "A", "r", "R"})
               THEN /\ k = Len(trace) => pc /= "prompt"
                    /\ k < Len(trace) => trace[k + 1] /= PromptEv
                    /\ (k = Len(trace) /\ pc = "match") =>
                          ch = IF IsGetch(trace[k], {"a", "A"}) THEN Some("a") ELSE Some("r")
               ELSE /\ k = Len(trace) => pc = "prompt" /\ result = "none"
                    /\ k < Len(trace) => trace[k + 1] = PromptEv

\* an 'x' and a failed read were each answered by the prompt, then 'R' was
\* taken as the choice to reopen
C14_Witness ==
    /\ Len(trace) = 7
    /\ trace[3] = GetchEv(Some("x"))
    /\ trace[5] = GetchEv(None)
    /\ trace[7] = GetchEv(Some("R"))
    /\ pc = "editor"

LookupPos == { k \in DOMAIN trace : trace[k].ev = "lookup" }

\* a leading `~`, alone or before a `/`, replaced by the home directory
Expanded(value) ==
    IF value /= <<>> /\ value[1] = "~" /\ IsSome(home)
       /\ (Len(value) = 1 \/ value[2] = "/")
    THEN Unwrap(home) \o Tail(value)
    ELSE value

\* C16: once the document is parsed its layout string has been classified
\* into exactly one variant: Contents if it holds a `{` (the layout store is
\* not even asked); otherwise Managed(name) if the store had a layout of
\* that name when it was asked; otherwise Path with the tilde expanded.
C16_LayoutClassification ==
    pc /= "parse" =>
        /\ result /= "panic"
        /\ IsSome(config)
        /\ LET value == file.layout
               layout == Cfg.general.layout
           IN  IF HasBrace(value)
               THEN layout = Contents(value) /\ (trace = <<>> \/ trace[1].ev /= "lookup")
               ELSE /\ trace /= <<>>
                    /\ trace[1].ev = "lookup"
                    /\ trace[1].name = value
                    /\ layout = IF trace[1].found THEN Managed(value) ELSE Path(Expanded(value))

ConfigPos(h) == { k \in DOMAIN trace : trace[k].ev = "config" /\ trace[k].handle = h }
WritePos == { k \in DOMAIN trace : trace[k].ev = "write" }

\* the first call of config() on the handle that succeeded
FirstParsed == CHOOSE k \in ConfigPos(1) : trace[k].res.ok /\ \A m \in ConfigPos(1) : trace[m].res.ok => k <= m

\* C18: once config() has succeeded on a handle, every later config() on
\* that handle returns the configuration parsed then and start on that
\* handle works from it (it spawns that configuration's applications and
\* appends its layout), whatever has been written to the file since; a
\* handle opened afterwards for the same name returns what the file holds
\* when it is asked.
C18_ConfigCached ==
    /\ (\E k \in ConfigPos(1) : trace[k].res.ok) =>
          LET v == trace[FirstParsed].res.val IN
          /\ config = Some(v)
          /\ \A m \in ConfigPos(1) : m > FirstParsed => trace[m].res = [ok |-> TRUE, val |-> v]
          /\ \A m \in SpawnPos : trace[m].app <= Len(v.applications)
          /\ \A m \in AppendPos :
                trace[m].cmd[2] = IF HasBrace(v.general.layout) THEN <<"/", "t">> ELSE v.general.layout
          /\ result = "Ok" => Cardinality(SpawnPos) = Len(v.applications)
    /\ (trace /= <<>> /\ Last.ev = "config" /\ Last.handle = 2) =>
          Last.res = CASE file.kind = "missing" -> [ok |-> FALSE, err |-> "UnknownProject"]
                       [] file.kind = "invalid" -> [ok |-> FALSE, err |-> "Toml"]
                       [] OTHER -> [ok |-> TRUE, val |-> file.cfg]

\* the handle parsed the file, the file was rewritten with the other
\* configuration, the handle still returns the first one while a new
\* handle returns the second, and start has spawned the first one's
\* application
C18_Witness ==
    /\ result = "Ok"
    /\ Len(trace) >= 4
    /\ trace[1].ev = "config" /\ trace[1].handle = 1 /\ trace[1].res.ok
    /\ trace[2].ev = "write" /\ trace[2].file.kind = "valid"
    /\ trace[3] = trace[1]
    /\ trace[4] = ConfigEv(2, [ok |-> TRUE, val |-> file.cfg])
    /\ trace[4].res /= trace[1].res
    /\ Cardinality(SpawnPos) = 1

\* ------------------------------------------------------------------ C19
CreateCalled == call.op = "create"

Listed(d, name) == \E k \in DOMAIN Listing(d) : Listing(d)[k] = name

\* what create leaves alone: no file is written, changed or removed, the
\* listing is what it was, a name without a file is not listed and its
\* handle fails verify
CreateLeavesDisk ==
    /\ disk = call.before
    /\ list = Listing(call.before)
    /\ call.res = "Ok" => (~Listed(disk, call.new) /\ VerifyAt(call.new) /= "Ok")
    /\ \A n \in Names : VerifyAt(n) = "Ok" => Listed(disk, n)

\* C19 as stated: create(name) fails with ProjectExists exactly when a file
\* for the name is on disk and otherwise returns the handle with the given
\* name and the path <config dir>/projects/<name>.toml; it writes, changes
\* and removes no file.
C19_CreateExistsOrHandle ==
    CreateCalled =>
        /\ (call.res = "ProjectExists") = IsSome(call.before[call.new])
        /\ call.res /= "ProjectExists" =>
              call.handle = Some([name |-> call.new,
                                  path |-> ConfigHome \o project_path(call.new)])
        /\ CreateLeavesDisk

\* C19: create(name) fails with ProjectExists exactly when a file for the
\* name is on disk; otherwise it returns the handle whose name is the lossy
\* UTF-8 form of the given name and whose path is
\* <config dir>/projects/<name>.toml, or the I/O error of place_config_file
\* and no handle.  In every case no file is written, changed or removed,
\* list() is the same before and after, and a freshly created handle is not
\* listed and fails verify.
C19_CreateContract ==
    CreateCalled =>
        /\ (call.res = "ProjectExists") = IsSome(call.before[call.new])
        /\ call.res \in {"ProjectExists", "Ok", "Io"}
        /\ (call.res = "Ok") = IsSome(call.handle)
        /\ call.res = "Ok" =>
              call.handle = Some([name |-> to_string_lossy(call.new),
                                  path |-> ConfigHome \o project_path(call.new)])
        /\ CreateLeavesDisk

\* a handle was created for a new name while other projects exist
C19_Witness ==
    /\ CreateCalled
    /\ call.res = "Ok"
    /\ IsNone(disk[call.new])
    /\ list /= <<>>

\* ------------------------------------------------------------------ C20
RenameReturned ==
    /\ call.op \in {"rename", "configfile_rename"}
    /\ call.res /= "none"

\* C20: after a successful rename(old -> new) there is no file under the
\* old name and the file under the new name holds what the old file held
\* (every other file is as it was); if a file for the new name exists,
\* new = old included, rename fails with ProjectExists and no file changes.
C20_RenameMoves ==
    RenameReturned =>
        /\ call.res = "Ok" =>
              /\ IsSome(call.before[call.self])
              /\ IsNone(disk[call.self])
              /\ disk[call.new] = call.before[call.self]
              /\ \A n \in Names \ {call.self, call.new} : disk[n] = call.before[n]
        /\ IsSome(call.before[call.new]) =>
              /\ call.res = "ProjectExists"
              /\ disk = call.before

\* a project was renamed while another project exists
C20_Witness ==
    /\ call.op = "rename"
    /\ call.res = "Ok"
    /\ disk[call.new] = Some("valid")
    /\ \E n \in Names \ {call.self, call.new} : IsSome(disk[n])

\* ------------------------------------------------------------------ C21
CopyReturned == call.op = "copy"

\* C21: copy(new_name) either succeeds, after which both names hold the
\* content the source had and no other file has changed, or fails, after
\* which no file has been created, overwritten or removed and list() is
\* what it was.
C21_CopyAllOrNothing ==
    CopyReturned =>
        /\ call.res = "Ok" =>
              /\ IsSome(call.before[call.self])
              /\ disk[call.self] = call.before[call.self]
              /\ disk[call.new] = call.before[call.self]
              /\ \A n \in Names \ {call.new} : disk[n] = call.before[n]
        /\ call.res /= "Ok" =>
              /\ disk = call.before
              /\ list = Listing(call.before)

\* ------------------------------------------------------------------ C22
\* the sequence is strictly ascending as names
SortedNames(q) ==
    \A m, n \in DOMAIN q : m < n => Less(as_bytes(q[m]), as_bytes(q[n]))

\* list() holds exactly the names with a file
ListIsDirectory == \A n \in Names : Listed(disk, n) = IsSome(disk[n])

\* open(name) succeeds exactly when name is listed, and fails with
\* UnknownProject otherwise
OpenIffListed ==
    call.op = "open" =>
        /\ (call.res = "Ok") = Listed(disk, call.new)
        /\ call.res \in {"Ok", "UnknownProject"}

\* after delete(name) the name is neither listed nor openable
DeletedIsGone ==
    (call.op = "delete" /\ call.res = "Ok") =>
        /\ ~Listed(disk, call.self)
        /\ IsNone(find_config_file(call.self))

\* C22: in every state reachable by create, create_from_template, copy,
\* rename and delete, list() returns exactly the names whose files exist,
\* in sorted order without duplicates; open(name) succeeds exactly when
\* name is in list() and fails with UnknownProject otherwise; after
\* delete(name) the name is neither listed nor openable.
C22_ListSortedOpenListed ==
    /\ ListIsDirectory
    /\ SortedNames(list)
    /\ OpenIffListed
    /\ DeletedIsGone

\* ------------------------------------------------------------------ C23
\* the variable is set and not empty
NonEmpty(o) == IsSome(o) /\ Unwrap(o) /= ""

\* VISUAL if it is set and not empty, else EDITOR if it is set and not
\* empty, else none
PreferredEditor ==
    IF NonEmpty(env.VISUAL) THEN env.VISUAL
    ELSE IF NonEmpty(env.EDITOR) THEN env.EDITOR
    ELSE None

\* C23: the editor that is run is VISUAL, or EDITOR when VISUAL is unset or
\* empty; EditorNotFound is returned only when both are unset or empty, and
\* only after the editor was asked for ('r').
C23_EditorFromEnvironment ==
    /\ \A k \in DOMAIN trace :
          IsEditor(trace[k]) => Some(trace[k].editor) = PreferredEditor
    /\ result = "EditorNotFound" =>
          /\ IsNone(PreferredEditor)
          /\ trace /= <<>>
          /\ IsGetch(Last, {"r", "R"})

\* ------------------------------------------------------------------ C24
\* every quote of the string is closed
RECURSIVE Terminated(_, _)
Terminated(str, quote) ==
    IF str = <<>> THEN quote = ""
    ELSE IF quote /= "" THEN Terminated(Tail(str), IF str[1] = quote THEN "" ELSE quote)
    ELSE Terminated(Tail(str), IF str[1] \in {"'", "\""} THEN str[1] ELSE "")

\* the tokens of a command string as a shell reads it: the words between
\* runs of blanks, a quoted section being part of its word with the quotes
\* removed.  `word` is the word read so far, `open` whether there is one.
RECURSIVE Words(_, _, _, _)
Words(str, word, open, quote) ==
    IF str = <<>> THEN (IF open THEN <<word>> ELSE <<>>)
    ELSE IF quote /= ""
         THEN IF str[1] = quote
              THEN Words(Tail(str), word, TRUE, "")
              ELSE Words(Tail(str), Append(word, str[1]), TRUE, quote)
    ELSE IF str[1] \in {"'", "\""} THEN Words(Tail(str), word, TRUE, str[1])
    ELSE IF str[1] = " "
         THEN (IF open THEN <<word>> ELSE <<>>) \o Words(Tail(str), <<>>, FALSE, "")
    ELSE Words(Tail(str), Append(word, str[1]), TRUE, "")

TokensOf(str) == Words(str, <<>>, FALSE, "")

\* the command the tokens denote: the first is the program, the rest the
\* args
FromTokens(tokens) == Ok(ApplicationCommand(Head(tokens), Tail(tokens)))

CommandDeserialized == pc = "deserialized" /\ toml.field = "command"

\* C24: a command given as a string denotes the command of its tokens, as
\* the sequence form of the same tokens does (first token the program, the
\* rest the args in order, a quoted section one token without its quotes);
\* the map form gives its program and args; the empty string and the empty
\* sequence are rejected with "command can not be empty".
C24_CommandFormsAgree ==
    CommandDeserialized =>
        CASE toml.form = "str" ->
                /\ toml.text = <<>> => output = Err("command can not be empty")
                /\ (Terminated(toml.text, "") /\ TokensOf(toml.text) /= <<>>) =>
                      output = FromTokens(TokensOf(toml.text))
          [] toml.form = "seq" ->
                IF toml.items = <<>>
                THEN output = Err("command can not be empty")
                ELSE output = FromTokens(toml.items)
          [] toml.form = "map" ->
                IsSome(toml.program) =>
                    output = Ok(ApplicationCommand(Unwrap(toml.program),
                                                   IF IsSome(toml.args) THEN Unwrap(toml.args) ELSE <<>>))

\* ------------------------------------------------------------------ C25
ExecDeserialized == pc = "deserialized" /\ toml.field = "exec" /\ output.ok

\* whether the input names the field
Given(name) == toml.form = "map" /\ IsSome(toml[name])

\* C25: every Exec obtained by parsing has a non-empty commands list,
\* whichever of the three forms was used; exec_type is Text and timeout is
\* 5 seconds when they are not given.
C25_ExecNonEmptyDefaults ==
    ExecDeserialized =>
        /\ output.val.commands /= <<>>
        /\ ~Given("exec_type") => output.val.exec_type = "Text"
        /\ ~Given("timeout") => output.val.timeout = 5

\* ------------------------------------------------------------------ C26
TempCreatePos == { k \in DOMAIN trace : trace[k].ev = "tempfile_create" }
TempRemovePos == { k \in DOMAIN trace : trace[k].ev = "tempfile_remove" }

\* C26: for a layout given as contents, start writes those contents to a
\* fresh transient file before it sends append_layout with that file's
\* path; the file exists while the command is sent, and it is removed when
\* start returns, with Ok or with any error after the file was created.  A
\* layout given as a path makes no transient file.
C26_TransientLayoutFile ==
    /\ Cardinality(TempCreatePos) <= 1
    /\ Cardinality(TempRemovePos) <= 1
    /\ \A r \in TempRemovePos : \E c \in TempCreatePos : c < r
    /\ IsSome(config) =>
          IF HasBrace(Cfg.general.layout)
          THEN \A k \in AppendPos :
                  /\ \E c \in TempCreatePos :
                        /\ c < k
                        /\ trace[c].contents = Cfg.general.layout
                  /\ trace[k].cmd[2] = Unwrap(path).name
                  /\ \A r \in TempRemovePos : k < r
          ELSE TempCreatePos = {}
    /\ IsNone(config) => TempCreatePos = {}
    /\ TempCreatePos /= {} =>
          IF pc = "done"
          THEN /\ tempfile = "removed"
               /\ TempRemovePos = {Len(trace)}
          ELSE /\ tempfile = "exists"
               /\ TempRemovePos = {}

\* start has returned Ok after appending a layout given as contents and
\* spawning an application
C26_Witness ==
    /\ result = "Ok"
    /\ TempCreatePos /= {}
    /\ AppendPos /= {}
    /\ SpawnPos /= {}
    /\ tempfile = "removed"

\* ------------------------------------------------------------------ C27
\* the invocation at k failed: the tool could not be spawned, or it did not
\* exit within the timeout
FailedTool(k) ==
    /\ IsTool(trace[k])
    /\ \/ ~trace[k].ok
       \/ \E p \in DOMAIN trace :
             /\ trace[p].ev = "wait_timeout"
             /\ trace[p].pid = trace[k].pid
             /\ ~trace[p].exited

\* C27: when an invocation of the input tool fails (timeout, or the tool
\* cannot be spawned) no further invocation is made: the invocations made
\* for the application are the expected ones up to the failed one, so for
\* Text a failed type(ci) is not followed by key(Return) and c(i+1)..cn are
\* never typed.
C27_FailedInputStopsInput ==
    \A k \in DOMAIN trace :
        FailedTool(k) =>
            /\ \A q \in DOMAIN trace : q > k => ~IsTool(trace[q])
            /\ IsSome(config)
            /\ i \in 1..Len(Cfg.applications)
            /\ IsSome(Cfg.applications[i].exec)
            /\ LET a == i
                   tools == ToolsOf(a)
                   want == Expected(Unwrap(Cfg.applications[a].exec))
               IN  /\ tools /= <<>>
                   /\ tools[Len(tools)] = trace[k]
                   /\ Len(tools) <= Len(want)
                   /\ \A m \in 1..Len(tools) :
                         SubSeq(tools[m].argv, LocatorLen + 1, Len(tools[m].argv)) = want[m]

\* the first type of a Text section with two commands failed and start has
\* returned: nothing but that type was invoked
C27_Witness ==
    /\ pc = "done"
    /\ \E k \in DOMAIN trace : FailedTool(k)
    /\ Unwrap(Cfg.applications[i].exec).exec_type = "Text"
    /\ Len(Unwrap(Cfg.applications[i].exec).commands) = 2
    /\ Len(ToolsOf(i)) = 1

\* ------------------------------------------------------------------ C28
\* config() has succeeded on the handle
Parsed == \E k \in ConfigPos(1) : trace[k].res.ok

\* start has been called on the handle and is past `self.config()?`
StartPastConfig == pc \notin {"idle", "config"}

\* C28: a failed config() caches nothing and verify() never touches the
\* cache: the handle's cache is empty until a config() or a start on the
\* handle has parsed the file, however many config() calls have failed and
\* whatever verify() returned; while the cache is empty each config() and
\* each start reads the file as it is then, so it succeeds once the file
\* has been fixed, and verify() reports the file as it is then.
C28_FailedConfigCachesNothing ==
    /\ IsSome(config) => (Parsed \/ StartPastConfig)
    /\ Parsed => IsSome(config)
    /\ (StartPastConfig /\ pc /= "done") => IsSome(config)
    /\ (trace /= <<>> /\ Last.ev = "config" /\ Last.handle = 1
          /\ \A k \in ConfigPos(1) : k < Len(trace) => ~trace[k].res.ok) =>
          /\ Last.res = load
          /\ config = (IF load.ok THEN Some(load.val) ELSE None)
    /\ (trace /= <<>> /\ Last.ev = "verify") => Last.res = verify
    /\ (pc = "done" /\ IsNone(config)) => (~load.ok /\ result = load.err)
    /\ (pc = "done" /\ load.ok /\ ~Parsed) => config = Some(load.val)

\* config() failed on the handle, verify() failed, the file was fixed, and
\* start on the same handle has parsed it and spawned its application
C28_Witness ==
    /\ result = "Ok"
    /\ Len(trace) >= 3
    /\ trace[1] = ConfigEv(1, [ok |-> FALSE, err |-> "Toml"])
    /\ trace[2] = VerifyEv("Toml")
    /\ trace[3].ev = "write"
    /\ ~Parsed
    /\ SpawnPos /= {}

\* ------------------------------------------------------------------ C29
\* the value of the field has been given to its deserializer
FieldDeserialized == pc \in {"deserialized", "done"}

\* C29: parsing is total: for every value of a field (a command string
\* with an unterminated quote or of blanks only, an exec in any form, a
\* working_directory or a layout that may be the empty string) the
\* deserializer returns, with a value or with an error, and never panics.
C29_ParsingTotal ==
    FieldDeserialized =>
        /\ result /= "panic"
        /\ pc = "deserialized"
        /\ output /= NoOutput
        /\ output.ok \/ output.err /= "none"

\* ------------------------------------------------------------------ C30
\* Project::rename has been called on a file that exists
RenameOfExisting == call.op = "rename" /\ IsSome(call.before[call.self])

\* the content the old file had when rename was called
Original == call.before[call.self]

\* the old or the new name holds the original content
NeverLost == disk[call.self] = Original \/ disk[call.new] = Original

\* the old file is only gone when the new one holds all of it
OldRemovedLast == IsNone(disk[call.self]) => disk[call.new] = Original

\* a directory in which nothing but the new name differs from before
OnlyNewWritten(content) == disk = [call.before EXCEPT ![call.new] = content]

\* C30: during and after a rename of an existing file the old or the new
\* name holds the original content, and the old file is removed only once
\* the new one holds all of it; between the two steps both names hold it;
\* a rename that returns Ok has moved the file, and one that returns an
\* error has either changed nothing or has copied the file and failed to
\* delete the old one, which leaves both names present with the content.
C30_RenameNeverLoses ==
    RenameOfExisting =>
        /\ NeverLost
        /\ OldRemovedLast
        /\ pc = "rename_delete" => OnlyNewWritten(Original)
        /\ (pc = "idle" /\ call.res = "Ok") =>
              disk = [call.before EXCEPT ![call.new] = Original, ![call.self] = None]
        /\ (pc = "idle" /\ call.res /= "Ok") =>
              \/ disk = call.before
              \/ IsNone(call.before[call.new]) /\ OnlyNewWritten(Original)

============================================================================
